---- MODULE Spec2Model ----
(***************************************************************************)
(* Orange-ball arcade game: the per-frame simulation of the 2D side        *)
(* scroller (OrangeBallGame.tsx, power-up variant), of the 3D maze and of  *)
(* the 3D city (OrangeBall3DGame.tsx).                                     *)
(*                                                                         *)
(* Numbers are fixed point: one pixel (2D) or one world unit (3D) is 1000  *)
(* model units, so that 0.6, 22.5, 0.015 or 0.3 * 1.2 are integers.  Time  *)
(* is in milliseconds.  Math.random() is a choice from RandSamples, read   *)
(* as thousandths.                                                         *)
(***************************************************************************)
EXTENDS Integers, Sequences, FiniteSets, TLC

VARIABLES
  variant,   \* which component is mounted: "2d", "maze" or "city"
  gs,        \* gameStateRef.current
  ui,        \* the React state written by the simulation (score, finalScore, gameOver)
  timers,    \* pending setTimeout callbacks, in the order they were scheduled
  raf,       \* pending requestAnimationFrame(gameLoop) callbacks
  now,       \* Date.now()
  scene,     \* the meshes world generation added to the 3D scene
  mounted,   \* the component is mounted: its listeners are attached
  hist       \* history of the run, for stating the properties

vars == <<variant, gs, ui, timers, raf, now, scene, mounted, hist>>

---------------------------------------------------------------------------
(* Bounds of the model *)

\* Date.now() when the component mounts (larger than every interval used)
StartTime == 20000
\* wall-clock time of one frame while an opening is replayed, in ms
FrameMs == 16
\* frame updates per session after the opening
MaxTicks == 6
\* how often the clock advances between events
MaxAdvances == 1
\* key, touch, click, resize and unmount events
MaxInputs == 2
\* pending timers
MaxTimers == 2
\* a volume farther than this from the ball, in model units, is not tested
\* for a collision
Reach == 2500

\* elapsed wall-clock time between two events
TimeSteps == {150, 300, 8000}
\* values of Math.random() that select a type, in thousandths
RandSamples == {0, 900}
\* window.innerHeight in pixels, when the component mounts and after a resize
StartHeight == 150
Heights == {150, 400}
\* window.innerWidth in pixels after a resize
Widths == {140}

---------------------------------------------------------------------------
(* Fixed point arithmetic *)

Scale == 10 * 10 * 10

\* F of x, with x computed once
Apply(F(_), x) == CHOOSE y \in { F(v) : v \in {x} } : TRUE

Abs(n) == IF n < 0 THEN -n ELSE n
Min(a, b) == IF a < b THEN a ELSE b
Max(a, b) == IF a > b THEN a ELSE b

\* a * b / Scale, exact whenever the product is a multiple of Scale
Mul(a, b) == (a * b) \div Scale

\* a / b rounded towards zero
Div(a, b) == IF a >= 0 THEN a \div b ELSE -((-a) \div b)

\* the largest s in lo..hi with s * s <= n
RECURSIVE sqrtBetween(_, _, _)
sqrtBetween(n, lo, hi) ==
  IF lo >= hi THEN lo
  ELSE LET mid == (lo + hi + 1) \div 2
       IN  IF mid * mid <= n
             THEN sqrtBetween(n, mid, hi)
             ELSE sqrtBetween(n, lo, mid - 1)

\* Math.sqrt, rounded down (for n below 2^31)
Sqrt(n) == sqrtBetween(n, 0, Min(n, 46340))

---------------------------------------------------------------------------
(* Program constants *)

\* the combo window of jump and bounce, in ms
ComboWindow == 300
\* the most stacks of one combo
MaxCombo == 3
\* lifetime of a power-up effect, in ms
PowerUpDuration == 8000
\* difficultySettings.medium
MediumGravity == 600
MediumJumpForce == -12000
MediumGameSpeed == 5000
MediumObstacleFrequency == 1500
MediumPowerUpFrequency == 2500
\* the 2D ball
NormalRadius2D == 15000
BallStartX == 80000
BallStartLift == 30000
GrowCap == 25000
ShrinkFloor == 10000
\* the 3D ball
NormalRadius3D == 500
JumpForce3D == 300
Gravity3D == 15
BallStartY3D == 1000
MoveSpeed == 150
DeflatedMoveSpeed == 50

\* the overlap tolerated after a push-out, in model units (rounding of the
\* square root and of the division)
Epsilon == 5

\* canvas.width: window.innerWidth, in model units
CanvasWidth == 140000

---------------------------------------------------------------------------
(* The ball: jump, bounce and the physics step *)

\* jumpForce * (1 + consecutiveJumps * 0.2)
powerJump(jumpForce, consecutiveJumps) ==
  (jumpForce * (10 + 2 * consecutiveJumps)) \div 10

\* jump without the cap on the combo
jumpUncapped(ball, currentTime) ==
  IF ball.onGround
    THEN [ball EXCEPT !.consecutiveJumps = 1,
                      !.lastJumpTime = currentTime,
                      !.velocityY = ball.jumpForce,
                      !.onGround = FALSE]
    ELSE IF currentTime - ball.lastJumpTime < ComboWindow
           THEN [ball EXCEPT !.consecutiveJumps = @ + 1,
                             !.lastJumpTime = currentTime,
                             !.velocityY =
                                powerJump(ball.jumpForce, ball.consecutiveJumps + 1)]
           ELSE ball

\* jump that leaves lastJumpTime alone when the ball leaves the ground
jumpUntimed(ball, currentTime) ==
  IF ball.onGround
    THEN [ball EXCEPT !.consecutiveJumps = 1,
                      !.velocityY = ball.jumpForce,
                      !.onGround = FALSE]
    ELSE IF currentTime - ball.lastJumpTime < ComboWindow
            /\ ball.consecutiveJumps < MaxCombo
           THEN [ball EXCEPT !.consecutiveJumps = @ + 1,
                             !.lastJumpTime = currentTime,
                             !.velocityY =
                                powerJump(ball.jumpForce, ball.consecutiveJumps + 1)]
           ELSE ball

\* jump whose power multiplier uses the count before the increment
jumpStalePower(ball, currentTime) ==
  IF ball.onGround
    THEN [ball EXCEPT !.consecutiveJumps = 1,
                      !.lastJumpTime = currentTime,
                      !.velocityY = ball.jumpForce,
                      !.onGround = FALSE]
    ELSE IF currentTime - ball.lastJumpTime < ComboWindow
            /\ ball.consecutiveJumps < MaxCombo
           THEN [ball EXCEPT !.consecutiveJumps = @ + 1,
                             !.lastJumpTime = currentTime,
                             !.velocityY =
                                powerJump(ball.jumpForce, ball.consecutiveJumps)]
           ELSE ball

\* jump whose combo window includes its end
jumpLateCombo(ball, currentTime) ==
  IF ball.onGround
    THEN [ball EXCEPT !.consecutiveJumps = 1,
                      !.lastJumpTime = currentTime,
                      !.velocityY = ball.jumpForce,
                      !.onGround = FALSE]
    ELSE IF currentTime - ball.lastJumpTime <= ComboWindow
            /\ ball.consecutiveJumps < MaxCombo
           THEN [ball EXCEPT !.consecutiveJumps = @ + 1,
                             !.lastJumpTime = currentTime,
                             !.velocityY =
                                powerJump(ball.jumpForce, ball.consecutiveJumps + 1)]
           ELSE ball

jump(ball, currentTime) ==
  IF ball.onGround
    THEN [ball EXCEPT !.consecutiveJumps = 1,
                      !.lastJumpTime = currentTime,
                      !.velocityY = ball.jumpForce,
                      !.onGround = FALSE]
    ELSE IF currentTime - ball.lastJumpTime < ComboWindow
            /\ ball.consecutiveJumps < MaxCombo
           THEN [ball EXCEPT !.consecutiveJumps = @ + 1,
                             !.lastJumpTime = currentTime,
                             !.velocityY =
                                powerJump(ball.jumpForce, ball.consecutiveJumps + 1)]
           ELSE ball

\* bounce without its test of deflated
bounceDeflated(ball, currentTime) == jump(ball, currentTime)

bounce(ball, currentTime) ==
  IF ball.deflated THEN ball ELSE jump(ball, currentTime)

\* updateBall2D moving the ball by the velocity it had before gravity
updateBall2DGravityLate(ball, canvas) ==
  LET vy == ball.velocityY + ball.gravity
      y1 == ball.y + ball.velocityY
      x1 == ball.x + ball.velocityX
      landed == y1 + ball.radius > canvas.height
      b1 == [ball EXCEPT !.velocityY = IF landed THEN 0 ELSE vy,
                         !.y = IF landed THEN canvas.height - ball.radius ELSE y1,
                         !.x = x1,
                         !.onGround = landed]
      b2 == IF b1.x - b1.radius < 0
              THEN [b1 EXCEPT !.x = b1.radius, !.velocityX = 0]
              ELSE IF b1.x + b1.radius > canvas.width
                     THEN [b1 EXCEPT !.x = canvas.width - b1.radius, !.velocityX = 0]
                     ELSE b1
  IN  IF b2.velocityY > 0 /\ ~b2.onGround
        THEN [b2 EXCEPT !.consecutiveJumps = 0]
        ELSE b2

\* 2D, screen space: y grows downwards, the floor is canvas.height
updateBall2D(ball, canvas) ==
  LET vy == ball.velocityY + ball.gravity
      y1 == ball.y + vy
      x1 == ball.x + ball.velocityX
      landed == y1 + ball.radius > canvas.height
      b1 == [ball EXCEPT !.velocityY = IF landed THEN 0 ELSE vy,
                         !.y = IF landed THEN canvas.height - ball.radius ELSE y1,
                         !.x = x1,
                         !.onGround = landed]
      b2 == IF b1.x - b1.radius < 0
              THEN [b1 EXCEPT !.x = b1.radius, !.velocityX = 0]
              ELSE IF b1.x + b1.radius > canvas.width
                     THEN [b1 EXCEPT !.x = canvas.width - b1.radius, !.velocityX = 0]
                     ELSE b1
  IN  IF b2.velocityY > 0 /\ ~b2.onGround
        THEN [b2 EXCEPT !.consecutiveJumps = 0]
        ELSE b2

\* 3D: y grows upwards, the floor is y = 0
updateBall3D(ball) ==
  LET vy == ball.velocityY - ball.gravity
      y1 == ball.y + vy
      landed == y1 - ball.radius < 0
      b1 == [ball EXCEPT !.velocityY = IF landed THEN 0 ELSE vy,
                         !.x = @ + ball.velocityX,
                         !.y = IF landed THEN ball.radius ELSE y1,
                         !.z = @ + ball.velocityZ,
                         !.onGround = landed]
  IN  IF b1.velocityY < 0 /\ ~b1.onGround
        THEN [b1 EXCEPT !.consecutiveJumps = 0]
        ELSE b1

---------------------------------------------------------------------------
(* Sequences *)

RemoveAt(list, i) ==
  [k \in 1..(Len(list) - 1) |-> IF k < i THEN list[k] ELSE list[k + 1]]

---------------------------------------------------------------------------
(* Ending the game (shared by the three variants) *)

\* the test of endGame: highScores is the list of the render whose gameLoop
\* is running, and the first entry of its sorted copy is one of the best
newHighScore(finalScore, highScores) ==
  /\ finalScore > 0
  /\ \A i \in 1..Len(highScores) : finalScore > highScores[i].score

\* m is the machine: [gs, ui, timers, raf, hist]
endGame(m) ==
  LET cancel == m.gs.animationId # 0
  IN  [m EXCEPT !.gs.gameOver = TRUE,
                !.gs.animationId = 0,
                !.raf.current = IF cancel THEN FALSE ELSE @,
                !.ui.gameOver = TRUE,
                !.ui.finalScore = m.gs.score \div 10,
                !.ui.isNewHighScore =
                   newHighScore(m.gs.score \div 10, m.raf.highScores),
                !.hist.endGames = @ + 1]

---------------------------------------------------------------------------
(* The 2D side scroller *)

sizeRatio(ball) == (ball.radius * Scale) \div ball.normalRadius

\* Math.max(300, baseInterval - sizeRatio * 200 - gameSpeed * 60), in ms
spawnInterval(g) ==
  Max(300, MediumObstacleFrequency - Mul(sizeRatio(g.ball), 200)
             - Mul(g.gameSpeed, 60))

\* the obstacle pushed by updateObstacles for the random draws rType, rSize
newObstacle(g, rType, rSize) ==
  LET ratio == sizeRatio(g.ball)
      birdChance == 300 + ((ratio - Scale) * 3) \div 10
      isBird == rType > Scale - birdChance
      heightMultiplier == Scale + (ratio - Scale) \div 2
      height == IF isBird THEN 20000
                ELSE Mul(30000 + rSize * 40, heightMultiplier)
      width == IF isBird THEN 30000 ELSE Mul(20000, heightMultiplier)
      y0 == IF isBird
              THEN g.canvas.height - 50000 - Mul(rSize * 70, ratio)
              ELSE g.canvas.height - height
  IN  [x |-> g.canvas.width,
       y |-> Max(0, Min(y0, g.canvas.height - height)),
       width |-> width, height |-> height,
       type |-> IF isBird THEN "bird" ELSE "cactus"]

\* moveAndEvict without the step back of the index after a splice
RECURSIVE moveAndSkip(_, _, _)
moveAndSkip(list, i, dx) ==
  IF i > Len(list) THEN list
  ELSE LET moved == [list EXCEPT ![i].x = @ - dx]
       IN  IF moved[i].x + moved[i].width < 0
             THEN moveAndSkip(RemoveAt(moved, i), i + 1, dx)
             ELSE moveAndSkip(moved, i + 1, dx)

\* the loop "move, and splice what left the screen" of updateObstacles and
\* updatePowerUps, from index i on
RECURSIVE moveAndEvict(_, _, _)
moveAndEvict(list, i, dx) ==
  IF i > Len(list) THEN list
  ELSE LET moved == [list EXCEPT ![i].x = @ - dx]
       IN  IF moved[i].x + moved[i].width < 0
             THEN moveAndEvict(RemoveAt(moved, i), i, dx)
             ELSE moveAndEvict(moved, i + 1, dx)

\* updateObstacles stamping the power-up timestamp too when it spawns
updateObstaclesOneStamp(g, currentTime, rType, rSize) ==
  LET spawn == currentTime - g.lastObstacleTime > spawnInterval(g)
      g1 == IF spawn
              THEN [g EXCEPT !.obstacles = Append(@, newObstacle(g, rType, rSize)),
                             !.lastObstacleTime = currentTime,
                             !.lastPowerUpTime = currentTime]
              ELSE g
      speedMultiplier == Scale + ((sizeRatio(g.ball) - Scale) * 3) \div 10
  IN  [g1 EXCEPT !.obstacles =
                    moveAndEvict(@, 1, Mul(g.gameSpeed, speedMultiplier))]

updateObstacles(g, currentTime, rType, rSize) ==
  LET spawn == currentTime - g.lastObstacleTime > spawnInterval(g)
      g1 == IF spawn
              THEN [g EXCEPT !.obstacles = Append(@, newObstacle(g, rType, rSize)),
                             !.lastObstacleTime = currentTime]
              ELSE g
      speedMultiplier == Scale + ((sizeRatio(g.ball) - Scale) * 3) \div 10
  IN  [g1 EXCEPT !.obstacles =
                    moveAndEvict(@, 1, Mul(g.gameSpeed, speedMultiplier))]

newPowerUp(g, rType, rY) ==
  LET minY == (g.canvas.height * 3) \div 10
      maxY == (g.canvas.height * 7) \div 10
  IN  [x |-> g.canvas.width,
       y |-> minY + Mul(rY, maxY - minY),
       width |-> 20000, height |-> 25000,
       type |-> IF rType > 500 THEN "grow" ELSE "shrink",
       active |-> TRUE]

updatePowerUps(g, currentTime, rType, rY) ==
  LET spawn == currentTime - g.lastPowerUpTime > MediumPowerUpFrequency
      g1 == IF spawn
              THEN [g EXCEPT !.powerUps = Append(@, newPowerUp(g, rType, rY)),
                             !.lastPowerUpTime = currentTime]
              ELSE g
  IN  [g1 EXCEPT !.powerUps = moveAndEvict(@, 1, g.gameSpeed)]

\* the rectangle test of checkCollisions against the ball's bounding square
overlaps(ball, e) ==
  /\ ball.x + ball.radius > e.x
  /\ ball.x - ball.radius < e.x + e.width
  /\ ball.y + ball.radius > e.y
  /\ ball.y - ball.radius < e.y + e.height

\* powerUpRadius computed from the current radius instead of normalRadius
powerUpRadiusCompounding(ball, type) ==
  IF type = "grow"
    THEN Min((ball.radius * 3) \div 2, GrowCap)
    ELSE Max((ball.radius * 7) \div 10, ShrinkFloor)

\* the radius a power-up of this type gives
powerUpRadius(ball, type) ==
  IF type = "grow"
    THEN Min((ball.normalRadius * 3) \div 2, GrowCap)
    ELSE Max((ball.normalRadius * 7) \div 10, ShrinkFloor)

\* pickUpLoop leaving the power-up it applied in the list
RECURSIVE pickUpLoopKeeps(_, _, _)
pickUpLoopKeeps(m, i, currentTime) ==
  IF i > Len(m.gs.powerUps) THEN m
  ELSE LET powerUp == m.gs.powerUps[i]
       IN  IF powerUp.active /\ overlaps(m.gs.ball, powerUp)
             THEN pickUpLoopKeeps(
                    [m EXCEPT !.gs.ball.radius = powerUpRadius(m.gs.ball, powerUp.type),
                              !.timers = Append(@, [kind |-> "expire",
                                                    due |-> currentTime + PowerUpDuration,
                                                    session |-> m.hist.session]),
                              !.hist.pickups = @ + 1],
                    i + 1, currentTime)
             ELSE pickUpLoopKeeps(m, i + 1, currentTime)

\* the power-up loop of checkCollisions, from index i on
RECURSIVE pickUpLoop(_, _, _)
pickUpLoop(m, i, currentTime) ==
  IF i > Len(m.gs.powerUps) THEN m
  ELSE LET powerUp == m.gs.powerUps[i]
       IN  IF powerUp.active /\ overlaps(m.gs.ball, powerUp)
             THEN pickUpLoop(
                    [m EXCEPT !.gs.ball.radius = powerUpRadius(m.gs.ball, powerUp.type),
                              !.hist.effect = powerUpRadius(m.gs.ball, powerUp.type),
                              !.gs.powerUps = RemoveAt(@, i),
                              !.timers = Append(@, [kind |-> "expire",
                                                    due |-> currentTime + PowerUpDuration,
                                                    session |-> m.hist.session]),
                              !.hist.pickups = @ + 1],
                    i, currentTime)
             ELSE pickUpLoop(m, i + 1, currentTime)

checkCollisions2D(m, currentTime) ==
  LET hit == \E k \in 1..Len(m.gs.obstacles) : overlaps(m.gs.ball, m.gs.obstacles[k])
      m1 == IF hit THEN endGame(m) ELSE m
  IN  pickUpLoop(m1, 1, currentTime)

\* the body of the power-up expiry timer
expirePowerUp(m) ==
  IF ~m.gs.gameOver
    THEN [m EXCEPT !.gs.ball.radius = m.gs.ball.normalRadius]
    ELSE m

moveLeft2D(g) == [g EXCEPT !.ball.velocityX = -5000]
moveRight2D(g) == [g EXCEPT !.ball.velocityX = 5000]
stopHorizontalMovement2D(g) == [g EXCEPT !.ball.velocityX = 0]

\* the speed step of update at every multiple of 200 of the raw score
rampSpeed(g) ==
  IF g.score % 200 = 0 /\ g.score > 0 THEN [g EXCEPT !.gameSpeed = @ + 100] ELSE g

update2D(m, currentTime, rnd) ==
  LET g1 == rampSpeed(m.gs)
      g2 == IF g1.leftPressed THEN moveLeft2D(g1)
            ELSE IF g1.rightPressed THEN moveRight2D(g1)
            ELSE stopHorizontalMovement2D(g1)
      g3 == [g2 EXCEPT !.ball = updateBall2D(g2.ball, g2.canvas)]
      g4 == updateObstacles(g3, currentTime, rnd[1], rnd[2])
      g5 == updatePowerUps(g4, currentTime, rnd[3], rnd[4])
      m1 == checkCollisions2D([m EXCEPT !.gs = g5], currentTime)
      spawnedO == IF g4.lastObstacleTime # g3.lastObstacleTime THEN 1 ELSE 0
      spawnedP == IF g5.lastPowerUpTime # g4.lastPowerUpTime THEN 1 ELSE 0
  IN  [m1 EXCEPT !.gs.score = @ + 1,
                 !.ui.score = (m1.gs.score + 1) \div 10,
                 !.hist.qualifying = @ + 1,
                 !.hist.left =
                    [obstacles |-> Len(g3.obstacles) + spawnedO - Len(g4.obstacles),
                     powerUps |-> Len(g4.powerUps) + spawnedP - Len(g5.powerUps)]]

---------------------------------------------------------------------------
(* The directional 2D side scroller: the world also scrolls with the arrow
   keys, and the score counts the frames of movement to the right *)

\* the variants drawn on the 2D canvas; they share the ball, the handlers and
\* resetGame
Canvas2D == {"2d", "directional"}

ScrollStep == 5000

\* the draw of Math.random() that sets an entity to the right of the canvas
SpawnOffset == 0

scroll(list, dx) == [i \in 1..Len(list) |-> [list[i] EXCEPT !.x = @ + dx]]

moveLeftDirectional(m) ==
  [m EXCEPT !.gs.ball.velocityX = -5000,
            !.gs.obstacles = scroll(@, ScrollStep),
            !.gs.powerUps = scroll(@, ScrollStep)]

moveRightDirectional(m) ==
  [m EXCEPT !.gs.ball.velocityX = 5000,
            !.gs.obstacles = scroll(@, -ScrollStep),
            !.gs.powerUps = scroll(@, -ScrollStep),
            !.gs.score = @ + 1,
            !.ui.score = (m.gs.score + 1) \div 10,
            !.hist.qualifying = @ + 1]

updateObstaclesDirectional(g, currentTime, rType, rSize) ==
  LET ratio == sizeRatio(g.ball)
      isBird == rType > 300
      heightMultiplier == Scale + (ratio - Scale) \div 2
      height == IF isBird THEN 20000
                ELSE Mul(30000 + rSize * 40, heightMultiplier)
      y0 == IF isBird
              THEN g.canvas.height - 50000 - Mul(rSize * 70, ratio)
              ELSE g.canvas.height - height
      obstacle == [x |-> g.canvas.width + SpawnOffset * 100,
                   y |-> Max(0, Min(y0, g.canvas.height - height)),
                   width |-> IF isBird THEN 30000
                             ELSE Mul(20000, heightMultiplier),
                   height |-> height,
                   type |-> IF isBird THEN "bird" ELSE "cactus"]
      spawn == /\ currentTime - g.lastObstacleTime > spawnInterval(g)
               /\ g.score % 50 = 0
      g1 == IF spawn
              THEN [g EXCEPT !.obstacles = Append(@, obstacle),
                             !.lastObstacleTime = currentTime]
              ELSE g
      speedMultiplier == Scale + ((ratio - Scale) * 3) \div 10
  IN  [g1 EXCEPT !.obstacles =
                    moveAndEvict(@, 1, Mul(g.gameSpeed, speedMultiplier))]

updatePowerUpsDirectional(g, currentTime, rType, rY) ==
  LET spawn == /\ currentTime - g.lastPowerUpTime > MediumPowerUpFrequency
               /\ g.score % 150 = 0
      g1 == IF spawn
              THEN [g EXCEPT !.powerUps =
                                Append(@, [newPowerUp(g, rType, rY) EXCEPT
                                             !.x = @ + SpawnOffset * 200]),
                             !.lastPowerUpTime = currentTime]
              ELSE g
  IN  [g1 EXCEPT !.powerUps = moveAndEvict(@, 1, g.gameSpeed)]

updateDirectional(m, currentTime, rnd) ==
  LET m1 == [m EXCEPT !.gs = rampSpeed(@)]
      m2 == IF m1.gs.leftPressed THEN moveLeftDirectional(m1)
            ELSE IF m1.gs.rightPressed THEN moveRightDirectional(m1)
            ELSE [m1 EXCEPT !.gs = stopHorizontalMovement2D(@)]
      g3 == [m2.gs EXCEPT !.ball = updateBall2D(m2.gs.ball, m2.gs.canvas)]
      g4 == updateObstaclesDirectional(g3, currentTime, rnd[1], rnd[2])
      g5 == updatePowerUpsDirectional(g4, currentTime, rnd[3], rnd[4])
      spawnedO == IF g4.lastObstacleTime # g3.lastObstacleTime THEN 1 ELSE 0
      spawnedP == IF g5.lastPowerUpTime # g4.lastPowerUpTime THEN 1 ELSE 0
  IN  checkCollisions2D(
        [m2 EXCEPT !.gs = g5,
                   !.hist.left =
                      [obstacles |-> Len(g3.obstacles) + spawnedO - Len(g4.obstacles),
                       powerUps |-> Len(g4.powerUps) + spawnedP - Len(g5.powerUps)]],
        currentTime)

---------------------------------------------------------------------------
(* 3D geometry: THREE.Vector3 and THREE.Box3 *)

Vec(x, y, z) == [x |-> x, y |-> y, z |-> z]

lengthSq(v) == v.x * v.x + v.y * v.y + v.z * v.z

\* v.length() < d, for d > 0 (the components are compared first, to keep the
\* squares small)
shorterThan(v, d) ==
  /\ Abs(v.x) < d
  /\ Abs(v.y) < d
  /\ Abs(v.z) < d
  /\ lengthSq(v) < d * d

\* new THREE.Box3().setFromObject(mesh) of a mesh of the given size at (x, y, z)
Box(x, y, z, width, height, depth) ==
  [min |-> Vec(x - width \div 2, y - height \div 2, z - depth \div 2),
   max |-> Vec(x + width \div 2, y + height \div 2, z + depth \div 2)]

clamp(v, lo, hi) == Max(lo, Min(hi, v))

\* box.clampPoint(ballPosition, closestPoint)
clampPoint(box, p) ==
  Vec(clamp(p.x, box.min.x, box.max.x),
      clamp(p.y, box.min.y, box.max.y),
      clamp(p.z, box.min.z, box.max.z))

\* subVectors(ballPosition, closestPoint)
penetrationVector(ball, box) ==
  LET c == clampPoint(box, ball)
  IN  Vec(ball.x - c.x, ball.y - c.y, ball.z - c.z)

isColliding(ball, box) ==
  shorterThan(penetrationVector(ball, box), ball.radius)

\* the ball still reaches into the box by more than eps
overlapping(ball, box, eps) ==
  shorterThan(penetrationVector(ball, box), ball.radius - eps)

\* Math.abs(n.y) > 0.7 for the normalized n of p: p.y^2 > 0.49 * |p|^2
mostlyVertical(p) == 100 * p.y * p.y > 49 * lengthSq(p)

\* one horizontal component of normal.multiplyScalar(penetrationDepth), for
\* the component c of the penetration vector of length len; normalize()
\* leaves the zero vector as it is
pushOut(ball, c, len) ==
  IF len = 0 THEN 0 ELSE Div(c * (ball.radius - len), len)

\* the push-out and the velocity response of checkCollisions for one volume;
\* wall = TRUE is the maze (stop), FALSE the city (bounce off at 0.4)
\* p is the penetration vector, len its length
respond(ball, wall, p, len) ==
  IF ball.radius - len <= 0 THEN ball
  ELSE IF mostlyVertical(p)
    THEN [ball EXCEPT !.x = @ + pushOut(ball, p.x, len),
                      !.z = @ + pushOut(ball, p.z, len),
                      !.velocityY = IF p.y > 0 THEN 0 ELSE -10,
                      !.onGround = IF p.y > 0 THEN TRUE ELSE @]
    ELSE [ball EXCEPT !.x = @ + pushOut(ball, p.x, len),
                      !.z = @ + pushOut(ball, p.z, len),
                      !.velocityX = IF Abs(p.x) > Abs(p.z)
                                      THEN (IF wall THEN 0 ELSE Div(-(@ * 4), 10))
                                      ELSE @,
                      !.velocityZ = IF Abs(p.x) > Abs(p.z)
                                      THEN @
                                      ELSE (IF wall THEN 0 ELSE Div(-(@ * 4), 10))]

resolve(ball, box, wall) ==
  IF ~isColliding(ball, box) THEN ball
  ELSE Apply(LAMBDA p : respond(ball, wall, p, Sqrt(lengthSq(p))),
             penetrationVector(ball, box))

\* one pass of the loop of checkCollisions; st.overlap records whether a
\* resolved volume was left overlapping the ball
resolveOne(st, box, wall) ==
  Apply(LAMBDA b1 : [ball |-> b1,
                     overlap |-> \/ st.overlap
                                 \/ /\ isColliding(st.ball, box)
                                    /\ overlapping(b1, box, Epsilon)],
        resolve(st.ball, box, wall))

\* the loop of checkCollisions over volumes[lo..hi], in order: the first half,
\* then the second half from where the first left the ball
RECURSIVE resolveAll(_, _, _, _, _)
resolveAll(st, volumes, lo, hi, wall) ==
  IF lo > hi THEN st
  ELSE IF lo = hi THEN resolveOne(st, volumes[lo], wall)
  ELSE Apply(LAMBDA half : resolveAll(half, volumes, (lo + hi) \div 2 + 1, hi, wall),
             resolveAll(st, volumes, lo, (lo + hi) \div 2, wall))

---------------------------------------------------------------------------
(* The 3D maze *)

\* 1 is a wall, 0 a path
mazeLayout ==
  << <<1, 1, 1, 1, 1, 1, 1, 1, 1, 1, 1, 1, 1, 1, 1>>,
     <<1, 0, 0, 0, 0, 0, 1, 0, 0, 0, 0, 0, 0, 0, 1>>,
     <<1, 0, 1, 1, 1, 0, 1, 0, 1, 1, 1, 1, 1, 0, 1>>,
     <<1, 0, 1, 0, 0, 0, 0, 0, 0, 0, 0, 0, 1, 0, 1>>,
     <<1, 0, 1, 0, 1, 1, 1, 1, 1, 1, 1, 0, 1, 0, 1>>,
     <<1, 0, 1, 0, 1, 0, 0, 0, 0, 0, 1, 0, 1, 0, 1>>,
     <<1, 0, 0, 0, 1, 0, 1, 1, 1, 0, 1, 0, 1, 0, 1>>,
     <<1, 1, 1, 0, 1, 0, 1, 0, 0, 0, 1, 0, 0, 0, 1>>,
     <<1, 0, 0, 0, 1, 0, 1, 0, 1, 1, 1, 1, 1, 0, 1>>,
     <<1, 0, 1, 1, 1, 0, 1, 0, 0, 0, 0, 0, 1, 0, 1>>,
     <<1, 0, 0, 0, 0, 0, 1, 1, 1, 1, 1, 0, 1, 0, 1>>,
     <<1, 0, 1, 1, 1, 0, 0, 0, 0, 0, 0, 0, 1, 0, 1>>,
     <<1, 0, 1, 0, 1, 1, 1, 1, 1, 1, 1, 1, 1, 0, 1>>,
     <<1, 0, 0, 0, 0, 0, 0, 0, 0, 0, 0, 0, 0, 0, 1>>,
     <<1, 1, 1, 1, 1, 1, 1, 1, 1, 1, 1, 1, 1, 1, 1>> >>

unitSize == 2000
wallHeight == 3000

platformPositions ==
  << [x |-> -10000, y |-> 2000, z |-> 5000, width |-> 3000, depth |-> 3000],
     [x |-> -5000, y |-> 3000, z |-> 10000, width |-> 2000, depth |-> 2000],
     [x |-> 0, y |-> 4000, z |-> 15000, width |-> 3000, depth |-> 3000],
     [x |-> 5000, y |-> 5000, z |-> 20000, width |-> 2000, depth |-> 2000],
     [x |-> 10000, y |-> 4000, z |-> 15000, width |-> 3000, depth |-> 3000],
     [x |-> 15000, y |-> 3000, z |-> 10000, width |-> 2000, depth |-> 2000],
     [x |-> 20000, y |-> 2000, z |-> 5000, width |-> 3000, depth |-> 3000] >>

\* the wall of cell (i, j) of the layout, both counted from 0
wallAt(i, j) ==
  LET offsetX == -((Len(mazeLayout[1]) * unitSize) \div 2)
      offsetZ == -((Len(mazeLayout) * unitSize) \div 2)
  IN  Box(offsetX + j * unitSize + unitSize \div 2,
          wallHeight \div 2,
          offsetZ + i * unitSize + unitSize \div 2,
          unitSize, wallHeight, unitSize)

\* the cells of the layout, row by row
mazeCells ==
  LET columns == Len(mazeLayout[1])
  IN  [k \in 1..(Len(mazeLayout) * columns) |->
         LET i == (k - 1) \div columns
             j == (k - 1) % columns
         IN  [wall |-> mazeLayout[i + 1][j + 1] = 1, box |-> wallAt(i, j)]]

isWall(cell) == cell.wall

\* gameStateRef.current.maze: the walls, then the floating platforms
createMaze ==
  LET walls == SelectSeq(mazeCells, isWall)
  IN  [k \in 1..Len(walls) |-> walls[k].box] \o
      [k \in 1..Len(platformPositions) |->
         LET pos == platformPositions[k]
         IN  Box(pos.x, pos.y, pos.z, pos.width, 500, pos.depth)]

goalPositionMaze == Vec(25000, 1000, 25000)

\* the volumes of the list within Reach of the ball, in the order of the list:
\* the loop of checkCollisions over the others changes nothing, they are
\* farther from the ball than the pushes of one frame can move it
nearby(volumes, ball) ==
  LET near(box) ==
        /\ ball.x > box.min.x - Reach
        /\ ball.x < box.max.x + Reach
        /\ ball.z > box.min.z - Reach
        /\ ball.z < box.max.z + Reach
  IN  SelectSeq(volumes, near)

\* the loop of checkCollisions over all of volumes
resolveVolumes(ball, volumes, wall) ==
  resolveAll([ball |-> ball, overlap |-> FALSE], volumes, 1, Len(volumes), wall)

\* checkCollisionsMaze ending the game when a wall is left in contact
checkCollisionsMazeFatal(m) ==
  Apply(LAMBDA st : IF st.overlap
                      THEN endGame([m EXCEPT !.gs.ball = st.ball,
                                             !.hist.overlap = st.overlap])
                      ELSE [m EXCEPT !.gs.ball = st.ball,
                                     !.hist.overlap = st.overlap],
        Apply(LAMBDA volumes : resolveVolumes(m.gs.ball, volumes, TRUE),
              nearby(createMaze, m.gs.ball)))

checkCollisionsMaze(m) ==
  Apply(LAMBDA st : [m EXCEPT !.gs.ball = st.ball, !.hist.overlap = st.overlap],
        Apply(LAMBDA volumes : resolveVolumes(m.gs.ball, volumes, TRUE),
              nearby(createMaze, m.gs.ball)))

\* scheduleEndGame with the timer set twice
scheduleEndGameTwice(m, currentTime, delay) ==
  [m EXCEPT !.timers = @ \o << [kind |-> "endGame",
                                 due |-> currentTime + delay,
                                 session |-> m.hist.session],
                               [kind |-> "endGame",
                                 due |-> currentTime + delay,
                                 session |-> m.hist.session] >>,
            !.hist.scheduled = @ + 1]

\* scheduleEndGame without its setTimeout
scheduleNothing(m, currentTime, delay) ==
  [m EXCEPT !.hist.scheduled = @ + 1]

\* schedules the delayed end of the game
scheduleEndGame(m, currentTime, delay) ==
  [m EXCEPT !.timers = Append(@, [kind |-> "endGame",
                                  due |-> currentTime + delay,
                                  session |-> m.hist.session]),
            !.hist.scheduled = @ + 1]

checkGoalReached(m, currentTime) ==
  LET ball == m.gs.ball
      toGoal == Vec(ball.x - goalPositionMaze.x, ball.y - goalPositionMaze.y,
                    ball.z - goalPositionMaze.z)
  IN  IF m.gs.mazeCompleted THEN m
      ELSE IF shorterThan(toGoal, ball.radius + 1500)
        THEN scheduleEndGame(
               [m EXCEPT !.gs.mazeCompleted = TRUE,
                         !.ui.mazeCompleted = TRUE,
                         !.gs.score = @ + 500,
                         !.ui.score = (m.gs.score + 500) \div 10,
                         !.hist.bonuses = @ + 1],
               currentTime, 2000)
        ELSE m

updateMaze(m, currentTime) ==
  LET m1 == [m EXCEPT !.gs.ball = updateBall3D(m.gs.ball)]
  IN  checkGoalReached(checkCollisionsMaze(m1), currentTime)

---------------------------------------------------------------------------
(* The 3D city *)

goalPositionCity == Vec(60000, 500, 60000)

\* the bounding box of a nail: ConeGeometry(0.3, 1, 8) standing at (x, 0.5, z)
nailAt(x, z) == [box |-> Box(x, 500, z, 600, 1000, 600), dangerous |-> TRUE]

\* the bounce off a tree, a person or a hydrant: one component of the
\* normalized bounce direction
direction(c, len) == IF len = 0 THEN 0 ELSE Div(c * Scale, len)

\* p is the penetration vector, len its length
bounceAlong(ball, p, len) ==
  [ball EXCEPT !.x = @ + Div(direction(p.x, len) * 200, Scale),
               !.z = @ + Div(direction(p.z, len) * 200, Scale),
               !.velocityX = Div(direction(p.x, len) * 100, Scale),
               !.velocityZ = Div(direction(p.z, len) * 100, Scale)]

bounceOff(ball, box) ==
  Apply(LAMBDA p : bounceAlong(ball, p, Sqrt(lengthSq(p))),
        penetrationVector(ball, box))

\* the body of the loop of checkObstacleCollisions
hitObstacle(ball, obstacle) ==
  IF ~isColliding(ball, obstacle.box) THEN ball
  ELSE IF obstacle.dangerous /\ ~ball.deflated
    THEN [ball EXCEPT !.deflated = TRUE,
                      !.radius = (ball.normalRadius * 8) \div 10]
  ELSE IF ~obstacle.dangerous
    THEN bounceOff(ball, obstacle.box)
  ELSE ball

\* the loop of checkObstacleCollisions, from index i on
RECURSIVE checkObstacleCollisions(_, _, _)
checkObstacleCollisions(ball, obstacles, i) ==
  IF i > Len(obstacles) THEN ball
  ELSE Apply(LAMBDA b1 : checkObstacleCollisions(b1, obstacles, i + 1),
             hitObstacle(ball, obstacles[i]))

checkCollisionsCity(m) ==
  Apply(LAMBDA st : [m EXCEPT !.gs.ball = checkObstacleCollisions(
                                            st.ball, m.gs.obstacles, 1),
                              !.hist.overlap = st.overlap],
        Apply(LAMBDA volumes : resolveVolumes(m.gs.ball, volumes, FALSE),
              nearby(m.gs.buildings, m.gs.ball)))

\* checkBasketballCourtReached without the test of mazeCompleted
courtReachedUnlatched(m, currentTime) ==
  IF shorterThan(Vec(m.gs.ball.x - goalPositionCity.x,
                     m.gs.ball.y - goalPositionCity.y,
                     m.gs.ball.z - goalPositionCity.z), 7000)
    THEN scheduleEndGame(
           [m EXCEPT !.gs.mazeCompleted = TRUE,
                     !.ui.mazeCompleted = TRUE,
                     !.gs.score = @ + 500,
                     !.ui.score = (m.gs.score + 500) \div 10,
                     !.hist.bonuses = @ + 1],
           currentTime, 3000)
    ELSE m

checkBasketballCourtReached(m, currentTime) ==
  LET ball == m.gs.ball
      toGoal == Vec(ball.x - goalPositionCity.x, ball.y - goalPositionCity.y,
                    ball.z - goalPositionCity.z)
      bonusPoints == IF ball.deflated THEN 250 ELSE 500
  IN  IF m.gs.mazeCompleted THEN m
      ELSE IF shorterThan(toGoal, 7000)
        THEN scheduleEndGame(
               [m EXCEPT !.gs.mazeCompleted = TRUE,
                         !.ui.mazeCompleted = TRUE,
                         !.gs.score = @ + bonusPoints,
                         !.ui.score = (m.gs.score + bonusPoints) \div 10,
                         !.hist.bonuses = @ + 1],
               currentTime, 3000)
        ELSE m

updateCity(m, currentTime) ==
  LET m1 == [m EXCEPT !.gs.ball = updateBall3D(m.gs.ball)]
  IN  checkBasketballCourtReached(checkCollisionsCity(m1), currentTime)

---------------------------------------------------------------------------
(* Moving the 3D ball *)

\* the full speed whatever the state of the ball
moveSpeedFull(ball) == MoveSpeed

\* 0.15, or 0.05 once the ball is deflated
moveSpeed(ball) == IF ball.deflated THEN DeflatedMoveSpeed ELSE MoveSpeed

moveLeft3D(m) == [m EXCEPT !.gs.ball.velocityX = -moveSpeed(m.gs.ball)]

\* moveRight3D adding two points for one step to the right
moveRightTwice(m) ==
  [m EXCEPT !.gs.ball.velocityX = moveSpeed(m.gs.ball),
            !.gs.score = @ + 2,
            !.ui.score = (m.gs.score + 2) \div 10,
            !.hist.qualifying = @ + 1]

moveRight3D(m) ==
  [m EXCEPT !.gs.ball.velocityX = moveSpeed(m.gs.ball),
            !.gs.score = @ + 1,
            !.ui.score = (m.gs.score + 1) \div 10,
            !.hist.qualifying = @ + 1]

moveForward(m) == [m EXCEPT !.gs.ball.velocityZ = -moveSpeed(m.gs.ball)]

moveBackward(m) == [m EXCEPT !.gs.ball.velocityZ = moveSpeed(m.gs.ball)]

stopHorizontalMovement3D(m) ==
  [m EXCEPT !.gs.ball.velocityX = 0, !.gs.ball.velocityZ = 0]

---------------------------------------------------------------------------
(* The game loop *)

\* rnd = <<obstacle type, obstacle size, power-up type, power-up height>>
update(m, currentTime, rnd) ==
  CASE m.variant = "2d" -> update2D(m, currentTime, rnd)
    [] m.variant = "directional" -> updateDirectional(m, currentTime, rnd)
    [] m.variant = "maze" -> updateMaze(m, currentTime)
    [] m.variant = "city" -> updateCity(m, currentTime)

\* gameLoop, entered from a frame callback or called directly: update, render,
\* and request the next frame, all only while the game is not over
gameLoop(m, currentTime, rnd) ==
  IF ~m.gs.gameOver
    THEN Apply(LAMBDA m1 : [m1 EXCEPT
                              !.gs.animationId = 1,
                              !.raf.stale = @ + (IF m1.raf.current THEN 1 ELSE 0),
                              !.raf.current = TRUE,
                              !.hist.ticks = @ + 1,
                              !.hist.accepted =
                                 IF m1.gs.ball.onGround THEN 0 ELSE @,
                              !.hist.op = "update"],
               update(m, currentTime, rnd))
    ELSE [m EXCEPT !.hist.op = "skip"]

\* the part of resetGame the three variants share
resetBall(ball) ==
  [ball EXCEPT !.consecutiveJumps = 0,
               !.lastJumpTime = 0,
               !.velocityX = 0,
               !.velocityY = 0,
               !.velocityZ = 0,
               !.onGround = TRUE,
               !.deflated = FALSE]

\* newSession without the setScore(0) of resetGame
newSessionStaleDisplay(m) ==
  [m EXCEPT !.gs.score = 0,
            !.gs.gameOver = FALSE,
            !.gs.mazeCompleted = FALSE,
            !.ui.gameOver = FALSE,
            !.ui.mazeCompleted = FALSE,
            !.hist.session = @ + 1,
            !.hist.ticks = 0,
            !.hist.endGames = 0,
            !.hist.bonuses = 0,
            !.hist.scheduled = 0,
            !.hist.qualifying = 0]

\* the loop that resetGame starts is the gameLoop of the render that drew the
\* button, and holds the list of that render
newSession(m) ==
  [m EXCEPT !.gs.score = 0,
            !.gs.gameOver = FALSE,
            !.gs.mazeCompleted = FALSE,
            !.ui.gameOver = FALSE,
            !.ui.score = 0,
            !.ui.mazeCompleted = FALSE,
            !.ui.isNewHighScore = FALSE,
            !.raf.highScores = m.ui.highScores,
            !.hist.session = @ + 1,
            !.hist.ticks = 0,
            !.hist.endGames = 0,
            !.hist.bonuses = 0,
            !.hist.scheduled = 0,
            !.hist.qualifying = 0]

resetGame2D(m) ==
  LET m1 == newSession(m)
  IN  [m1 EXCEPT !.gs.obstacles = <<>>,
                 !.gs.powerUps = <<>>,
                 !.gs.gameSpeed = MediumGameSpeed,
                 !.gs.lastObstacleTime = 0,
                 !.gs.lastPowerUpTime = 0,
                 !.gs.ball = [resetBall(@) EXCEPT
                                !.gravity = MediumGravity,
                                !.jumpForce = MediumJumpForce,
                                !.radius = NormalRadius2D,
                                !.normalRadius = NormalRadius2D,
                                !.x = BallStartX,
                                !.y = m.gs.canvas.height - BallStartLift]]

resetGameMaze(m) ==
  LET m1 == newSession(m)
  IN  [m1 EXCEPT !.gs.ball = [resetBall(@) EXCEPT
                                !.radius = NormalRadius3D,
                                !.normalRadius = NormalRadius3D,
                                !.x = 0, !.y = BallStartY3D, !.z = 0]]

\* world is the world this call of initGame generates
resetGameCity(m, world) ==
  LET m1 == newSession(m)
  IN  [m1 EXCEPT !.scene = world,
                 !.gs.buildings = world.buildings,
                 !.gs.obstacles = <<>>,
                 !.gs.ball = [resetBall(@) EXCEPT
                                !.radius = NormalRadius3D,
                                !.normalRadius = NormalRadius3D,
                                !.x = 0, !.y = BallStartY3D, !.z = 0]]

\* world is the world initGame generates in the city
resetGame(m, world) ==
  CASE m.variant \in Canvas2D -> resetGame2D(m)
    [] m.variant = "maze" -> resetGameMaze(m)
    [] m.variant = "city" -> resetGameCity(m, world)

\* the click on Play Again: resetGame, which ends with a call of gameLoop; as
\* after the mount, the frames are counted from there
playAgain(m, currentTime, world, rnd) ==
  [gameLoop(resetGame(m, world), currentTime, rnd) EXCEPT !.hist.ticks = 0]

---------------------------------------------------------------------------
(* The high-score list *)

MaxHighScores == 10

\* a name is the sequence of its characters; String.prototype.trim removes
\* the white space at both ends
RECURSIVE trim(_)
trim(name) ==
  IF name = <<>> THEN name
  ELSE IF Head(name) = " " THEN trim(Tail(name))
  ELSE IF name[Len(name)] = " " THEN trim(SubSeq(name, 1, Len(name) - 1))
  ELSE name

\* sort((a, b) => b.score - a.score), which is stable: the last entry of the
\* list goes behind every entry before it that does not score less
RECURSIVE sortByScore(_)
sortByScore(list) ==
  IF list = <<>> THEN <<>>
  ELSE LET entry == list[Len(list)]
           sorted == sortByScore(SubSeq(list, 1, Len(list) - 1))
           ahead == Cardinality({i \in 1..Len(sorted) :
                                   sorted[i].score >= entry.score})
       IN  SubSeq(sorted, 1, ahead) \o << entry >>
             \o SubSeq(sorted, ahead + 1, Len(sorted))

slice(list, count) ==
  SubSeq(list, 1, IF Len(list) < count THEN Len(list) ELSE count)

newScore(ui_) == [name |-> trim(ui_.playerName), score |-> ui_.finalScore]

saveHighScoreUnsorted(m) ==
  IF trim(m.ui.playerName) = <<>> THEN [m EXCEPT !.hist.op = "ignored"]
  ELSE [m EXCEPT !.ui.highScores =
                    slice(Append(m.ui.highScores, newScore(m.ui)), MaxHighScores),
                 !.ui.playerName = <<>>,
                 !.ui.isNewHighScore = FALSE,
                 !.hist.op = "saved"]

\* the Save Score button
saveHighScore(m) ==
  IF trim(m.ui.playerName) = <<>> THEN [m EXCEPT !.hist.op = "ignored"]
  ELSE [m EXCEPT !.ui.highScores =
                    slice(sortByScore(Append(m.ui.highScores, newScore(m.ui))),
                          MaxHighScores),
                 !.ui.playerName = <<>>,
                 !.ui.isNewHighScore = FALSE,
                 !.hist.op = "saved"]

\* onChange of the name field
setPlayerName(m, name) == [m EXCEPT !.ui.playerName = name, !.hist.op = "type"]

resizeCanvas(g, width, height) ==
  [g EXCEPT !.canvas.width = width,
            !.canvas.height = height,
            !.ball.y = height - BallStartLift]

---------------------------------------------------------------------------
(* Key and touch handlers *)

\* hist.accepted counts the jump inputs that changed the ball since it left
\* the ground
jumpInput(m, currentTime) ==
  LET ball == IF m.variant = "city"
                THEN bounce(m.gs.ball, currentTime)
                ELSE jump(m.gs.ball, currentTime)
  IN  [m EXCEPT !.gs.ball = ball,
                !.hist.op = "jump",
                !.hist.accepted = IF ball = m.gs.ball THEN @
                                  ELSE IF m.gs.ball.onGround THEN 1
                                  ELSE @ + 1]

\* the keys that jump: "jump" is Space, "arrowUp" is ArrowUp
JumpKeys == {"jump", "arrowUp"}

handleKeyDown(m, key, currentTime) ==
  CASE key \in JumpKeys ->
         IF ~m.gs.jumpPressed
           THEN [jumpInput(m, currentTime) EXCEPT !.gs.jumpPressed = TRUE]
           ELSE m
    [] key = "left" ->
         LET m1 == [m EXCEPT !.gs.leftPressed = TRUE]
         IN  IF m.variant \in Canvas2D THEN m1 ELSE moveLeft3D(m1)
    [] key = "right" ->
         LET m1 == [m EXCEPT !.gs.rightPressed = TRUE]
         IN  IF m.variant \in Canvas2D THEN m1 ELSE moveRight3D(m1)
    [] key = "backward" -> IF m.variant \in Canvas2D THEN m ELSE moveBackward(m)
    [] key = "forward" -> IF m.variant \in Canvas2D THEN m ELSE moveForward(m)

handleKeyUp(m, key) ==
  CASE key \in JumpKeys -> [m EXCEPT !.gs.jumpPressed = FALSE]
    [] key = "left" ->
         LET m1 == [m EXCEPT !.gs.leftPressed = FALSE]
         IN  IF m.variant \in Canvas2D THEN m1 ELSE stopHorizontalMovement3D(m1)
    [] key = "right" ->
         LET m1 == [m EXCEPT !.gs.rightPressed = FALSE]
         IN  IF m.variant \in Canvas2D THEN m1 ELSE stopHorizontalMovement3D(m1)
    [] key \in {"backward", "forward"} ->
         IF m.variant \in Canvas2D THEN m ELSE stopHorizontalMovement3D(m)

\* a key goes down (or repeats), a held key goes up; hist.held is the set of
\* the keys held
press(m, key, currentTime) ==
  [handleKeyDown(m, key, currentTime) EXCEPT !.hist.held = @ \cup {key}]

release(m, key) ==
  [handleKeyUp(m, key) EXCEPT !.hist.held = @ \ {key}]

\* the cleanup returned by the effect: removeEventListener for every handler
\* and cancelAnimationFrame(animationId)
unmount(m) == [m EXCEPT !.mounted = FALSE, !.raf.current = FALSE]

\* the body of a timer
runTimer(m, timer) ==
  IF timer.kind = "expire" THEN expirePowerUp(m) ELSE endGame(m)

---------------------------------------------------------------------------
(* Openings: play that is replayed before the exploration starts *)

\* the frame requested last fires
frameCallback(m, currentTime, rnd) ==
  gameLoop([m EXCEPT !.raf.current = FALSE], currentTime, rnd)

\* one frame, FrameMs after the last; st = [m, t]
frameStep(st, rnd) ==
  [m |-> frameCallback(st.m, st.t + FrameMs, rnd), t |-> st.t + FrameMs]

\* n frames with the draws rnd, or fewer if the game ends
RECURSIVE frames(_, _, _)
frames(st, n, rnd) ==
  IF n = 0 THEN st
  ELSE IF n = 1 THEN Apply(LAMBDA s : frameStep(s, rnd), st)
  ELSE Apply(LAMBDA half : IF half.m.gs.gameOver THEN half
                           ELSE frames(half, n - n \div 2, rnd),
             frames(st, n \div 2, rnd))

\* one step of a script: frames, a key pressed, a key released, Play Again,
\* the window resized
scriptStep(st, step) ==
  CASE step.op = "frames" -> frames(st, step.n, step.rnd)
    [] step.op = "again" ->
         [st EXCEPT !.m = playAgain(st.m, st.t, st.m.scene, step.rnd)]
    [] step.op = "down" -> [st EXCEPT !.m = press(st.m, step.key, st.t)]
    [] step.op = "up" -> [st EXCEPT !.m = release(st.m, step.key)]
    [] step.op = "resize" ->
         [st EXCEPT !.m.gs = resizeCanvas(@, step.width * Scale,
                                          step.height * Scale)]

\* the steps of script from index i on, up to the first that the state of
\* the game does not allow: Play Again is there when the game is over, and
\* only then
RECURSIVE replay(_, _, _)
replay(st, script, i) ==
  IF i > Len(script) THEN st
  ELSE IF st.m.ui.gameOver # (script[i].op = "again") THEN st
  ELSE Apply(LAMBDA s : replay(s, script, i + 1),
             Apply(LAMBDA s : scriptStep(s, script[i]), st))

Frames(n) == [op |-> "frames", n |-> n, rnd |-> <<900, 0, 900, 900>>]
Again(rnd) == [op |-> "again", rnd |-> rnd]
\* frames in which every bird flies high and every power-up is a shrink that
\* floats high, out of reach of a ball on the ground
Glide(n) == [op |-> "frames", n |-> n, rnd |-> <<900, 900, 0, 0>>]
\* frames in which every bird flies high and every power-up is a grow that
\* floats low enough for a ball on the ground to touch it
Graze(n) == [op |-> "frames", n |-> n, rnd |-> <<900, 900, 900, 900>>]
ResizeTo(width, height) == [op |-> "resize", width |-> width, height |-> height]
Down(key) == [op |-> "down", key |-> key]
Up(key) == [op |-> "up", key |-> key]

\* maze: along the corridors from the start to the cell under the first
\* platform
UnderPlatform ==
  << Down("backward"), Frames(31), Up("backward"),
     Down("right"), Frames(57), Up("right"),
     Down("backward"), Frames(27), Up("backward"),
     Down("left"), Frames(87), Up("left"),
     Down("forward"), Frames(17), Up("forward"),
     Down("left"), Frames(37), Up("left") >>

\* city: from the start to the nail at (10, 0)
ToNail == << Down("right"), Frames(60), Up("right") >>

\* city: diagonally from the start to the edge of the basketball court
ToCourt == << Down("right"), Down("backward"), Frames(366), Up("right") >>

\* 2D: the ball has dropped to the ground, the first obstacle and power-up
\* are two frames away
Landed == << Frames(7) >>

\* 2D: a first game to its end, Play Again, and the second game up to where
\* Landed leaves the first
SecondGame == << Frames(10), Again(<<900, 0, 900, 900>>), Frames(8) >>

\* 3D: the ball has dropped to the ground; then the jump key is tapped once,
\* and three times in a row
Settled == << Frames(9) >>
Tap == << Down("jump"), Up("jump") >>
SingleJump == Settled \o Tap
TripleJump == Settled \o Tap \o Tap \o Tap

\* maze: a triple jump from the start over the inner walls onto the
\* outer wall, off it, and along the outside to one frame
\* before the capture radius of the goal
ToGoal ==
  Settled \o Tap \o << Frames(17) >> \o Tap
    \o << Frames(2), Down("right"), Down("backward"), Frames(15) >> \o Tap
    \o << Frames(110), Up("right"), Up("backward"),
          Down("right"), Frames(40), Up("right"),
          Down("backward"), Frames(51) >>

\* 2D: the window is 936 px wide when the second power-up spawns and 140 px
\* wide when the third spawns 157 frames later, so the two are side by side;
\* the opening ends a few frames before they leave the screen
TwoLeaving ==
  << ResizeTo(936, 150), Glide(157), ResizeTo(140, 150), Glide(185) >>

\* 2D: 46 updates survived, the first obstacle and power-up already gone
Cruise == << Glide(45) >>

\* 2D: the ball has grown by the first power-up and the second one, spawned
\* 157 frames after the first, is about to reach it
Grown == << Graze(160) >>

\* 3D: Space went down and, while it is held, ArrowUp went down too
BothHeld == Settled \o << Down("jump"), Down("arrowUp") >>

\* maze: under the first platform the ball jumps, meets the underside, is
\* reset by the next update while it falls, and is tapped up again twice,
\* each time within the combo window and before it lands
Flapping ==
  UnderPlatform \o Tap \o << Frames(9) >> \o Tap \o << Frames(7) >>
    \o Tap \o << Frames(7) >>

Openings(v) ==
  CASE v = "2d" -> {<<>>, Landed, SecondGame, TwoLeaving, Cruise, Grown}
    [] v = "maze" -> {<<>>, Settled, SingleJump, TripleJump, UnderPlatform,
                     ToGoal, BothHeld, Flapping}
    [] v = "city" -> {<<>>, Settled, SingleJump, TripleJump, ToNail, ToCourt}

---------------------------------------------------------------------------
(* The initial state: the component after its mount effect and an opening *)

Ball2D(height) ==
  [x |-> BallStartX, y |-> height - BallStartLift, z |-> 0,
   velocityX |-> 0, velocityY |-> 0, velocityZ |-> 0,
   radius |-> NormalRadius2D, normalRadius |-> NormalRadius2D,
   gravity |-> MediumGravity, jumpForce |-> MediumJumpForce,
   onGround |-> TRUE, consecutiveJumps |-> 0, lastJumpTime |-> 0,
   deflated |-> FALSE]

\* gameStateRef.current after initGame
GameState2D(height) ==
  [ball |-> Ball2D(height),
   obstacles |-> <<>>, powerUps |-> <<>>,
   score |-> 0, gameSpeed |-> MediumGameSpeed,
   lastObstacleTime |-> 0, lastPowerUpTime |-> 0,
   jumpPressed |-> FALSE, leftPressed |-> FALSE, rightPressed |-> FALSE,
   animationId |-> 0, gameOver |-> FALSE, mazeCompleted |-> FALSE,
   canvas |-> [width |-> CanvasWidth, height |-> height]]

Ball3D ==
  [x |-> 0, y |-> BallStartY3D, z |-> 0,
   velocityX |-> 0, velocityY |-> 0, velocityZ |-> 0,
   radius |-> NormalRadius3D, normalRadius |-> NormalRadius3D,
   gravity |-> Gravity3D, jumpForce |-> JumpForce3D,
   onGround |-> TRUE, consecutiveJumps |-> 0, lastJumpTime |-> 0,
   deflated |-> FALSE]

\* gameStateRef.current after initGame generated world
GameState3D(world) ==
  [ball |-> Ball3D,
   obstacles |-> <<>>, buildings |-> world.buildings,
   score |-> 0,
   jumpPressed |-> FALSE, leftPressed |-> FALSE, rightPressed |-> FALSE,
   animationId |-> 0, gameOver |-> FALSE, mazeCompleted |-> FALSE]

\* no generated world: the 2D game, and the maze, whose pieces are fixed
NoWorld == [buildings |-> <<>>, obstacles |-> <<>>]

\* worlds createCityscape and createObstacles can generate, reduced to the
\* pieces next to the ball's way
Worlds ==
  { [buildings |-> <<Box(0, 2500, 14000, 3000, 5000, 3000)>>,
     obstacles |-> <<nailAt(10000, 0)>>] }

Ui0 ==
  [score |-> 0, finalScore |-> 0, gameOver |-> FALSE, mazeCompleted |-> FALSE,
   highScores |-> <<>>, isNewHighScore |-> FALSE, playerName |-> <<>>]

Hist0 ==
  [session |-> 1, ticks |-> 0, advances |-> 0, inputs |-> 0,
   endGames |-> 0, pickups |-> 0, bonuses |-> 0, scheduled |-> 0,
   overlap |-> FALSE, held |-> {}, op |-> "mount",
   left |-> [obstacles |-> 0, powerUps |-> 0], qualifying |-> 0,
   effect |-> 0, accepted |-> 0]

Machine0(v, world, g) ==
  [variant |-> v, scene |-> world, gs |-> g, ui |-> Ui0, timers |-> <<>>,
   raf |-> [current |-> FALSE, stale |-> 0, highScores |-> <<>>],
   mounted |-> TRUE, hist |-> Hist0]

\* the machine of the current state
M ==
  [variant |-> variant, scene |-> scene, gs |-> gs, ui |-> ui,
   timers |-> timers, raf |-> raf, mounted |-> mounted, hist |-> hist]

Becomes(m) ==
  /\ variant' = m.variant
  /\ scene' = m.scene
  /\ gs' = m.gs
  /\ ui' = m.ui
  /\ timers' = m.timers
  /\ raf' = m.raf
  /\ mounted' = m.mounted
  /\ hist' = m.hist

\* the draws of Math.random() an update of g makes at currentTime: the type of
\* a spawned obstacle and of a spawned power-up vary, an obstacle is of the
\* smallest size and a power-up floats low
Draws(m, currentTime) ==
  IF m.variant \notin Canvas2D THEN {<<0, 0, 0, 0>>}
  ELSE LET g1 == rampSpeed(m.gs)
           obstacle == currentTime - g1.lastObstacleTime > spawnInterval(g1)
           powerUp == currentTime - g1.lastPowerUpTime > MediumPowerUpFrequency
           O == IF obstacle THEN RandSamples ELSE {0}
           P == IF powerUp THEN RandSamples ELSE {0}
       IN  O \X {0} \X P \X {900}

\* useEffect: initGame, the first gameLoop call, and then the opening; the
\* counters of the history start after the opening
Mounted(m0, rnd, script) ==
  \E st \in {replay([m |-> gameLoop(m0, StartTime, rnd), t |-> StartTime],
                    script, 1)} :
     /\ variant = st.m.variant
     /\ scene = st.m.scene
     /\ gs = st.m.gs
     /\ ui = st.m.ui
     /\ timers = st.m.timers
     /\ raf = st.m.raf
     /\ mounted = st.m.mounted
     /\ now = st.t
     /\ hist = [Hist0 EXCEPT !.session = st.m.hist.session,
                             !.overlap = st.m.hist.overlap,
                             !.op = st.m.hist.op,
                             !.held = st.m.hist.held,
                             !.bonuses = st.m.hist.bonuses,
                             !.scheduled = st.m.hist.scheduled,
                             !.endGames = st.m.hist.endGames,
                             !.pickups = st.m.hist.pickups,
                             !.left = st.m.hist.left,
                             !.qualifying = st.m.hist.qualifying,
                             !.effect = st.m.hist.effect,
                             !.accepted = st.m.hist.accepted]

Variants == {"2d", "maze", "city"}

\* the component as constructed, before its mount effect
Constructed(v) ==
  CASE v \in Canvas2D -> {Machine0(v, NoWorld, GameState2D(StartHeight * Scale))}
    [] v = "maze" -> {Machine0(v, NoWorld, GameState3D(NoWorld))}
    [] v = "city" -> {Machine0(v, world, GameState3D(world)) : world \in Worlds}

Init ==
  \E v \in Variants : \E m0 \in Constructed(v) : \E script \in Openings(v) :
     \E rnd \in Draws(m0, StartTime) : Mounted(m0, rnd, script)

---------------------------------------------------------------------------
(* Steps *)

Running == hist.ticks < MaxTicks /\ Len(timers) < MaxTimers

\* the time of the next frame: FrameMs from now, or when the next timer is due
FrameTime ==
  IF timers # <<>> /\ timers[1].due < now + FrameMs
    THEN timers[1].due ELSE now + FrameMs

\* the frame requested last fires; a timer that is due runs first
Frame ==
  /\ raf.current
  /\ Running
  /\ IF timers = <<>> THEN TRUE ELSE timers[1].due > now
  /\ \E rnd \in Draws(M, FrameTime) : Becomes(frameCallback(M, FrameTime, rnd))
  /\ now' = FrameTime

\* a frame requested earlier, whose id is no longer stored, fires along with
\* the last
StaleFrame ==
  /\ raf.stale > 0
  /\ Running
  /\ \E rnd \in Draws(M, now) :
        Becomes(gameLoop([M EXCEPT !.raf.stale = @ - 1], now, rnd))
  /\ UNCHANGED now

\* the keys the handlers of a variant know: Space or ArrowUp, ArrowLeft,
\* ArrowRight, and in 3D ArrowDown or s, and w
Keys(v) ==
  IF v \in Canvas2D THEN {"jump", "arrowUp", "left", "right"}
  ELSE {"jump", "arrowUp", "left", "right", "backward", "forward"}

Input(m, op) == [m EXCEPT !.hist.inputs = @ + 1, !.hist.op = op]

KeyDown(key) ==
  /\ mounted
  /\ key \in Keys(variant)
  /\ hist.inputs < MaxInputs
  /\ Becomes(press(Input(M, "key"), key, now))
  /\ UNCHANGED now

KeyUp(key) ==
  /\ mounted
  /\ key \in hist.held
  /\ hist.inputs < MaxInputs
  /\ Becomes(release(Input(M, "key"), key))
  /\ UNCHANGED now

\* touchstart on the canvas of the 2D game
TouchStart ==
  /\ mounted
  /\ variant = "2d"
  /\ hist.inputs < MaxInputs
  /\ Becomes(jumpInput(Input(M, "key"), now))
  /\ UNCHANGED now

\* the window is resized
Resize ==
  /\ mounted
  /\ variant = "2d"
  /\ hist.inputs < MaxInputs
  /\ \E w \in Widths : \E h \in Heights :
        /\ <<w * Scale, h * Scale>> # <<gs.canvas.width, gs.canvas.height>>
        /\ Becomes([Input(M, "resize") EXCEPT
                      !.gs = resizeCanvas(@, w * Scale, h * Scale)])
  /\ UNCHANGED now

\* the oldest pending timer is due and runs
Timer ==
  /\ timers # <<>>
  /\ timers[1].due <= now
  /\ Becomes(runTimer([M EXCEPT !.timers = Tail(@), !.hist.op = "timer"],
                      timers[1]))
  /\ UNCHANGED now

\* the Play Again button of the game-over panel
Reset ==
  /\ mounted
  /\ ui.gameOver
  /\ hist.inputs < MaxInputs
  /\ \E world \in (IF variant = "city" THEN Worlds ELSE {NoWorld}) :
        \E rnd \in Draws(resetGame(M, world), now) :
           Becomes(playAgain(Input(M, "click"), now, world, rnd))
  /\ UNCHANGED now

\* the component is unmounted: the cleanup of the effect removes the
\* listeners and cancels the frame request whose id is stored
Unmount ==
  /\ mounted
  /\ hist.inputs < MaxInputs
  /\ Becomes(unmount(Input(M, "unmount")))
  /\ UNCHANGED now

\* time passes, but not beyond the moment the next timer is due
Advance ==
  /\ hist.advances < MaxAdvances
  /\ \E dt \in TimeSteps :
        LET t == IF timers # <<>> /\ timers[1].due < now + dt
                   THEN timers[1].due ELSE now + dt
        IN  /\ t > now
            /\ now' = t
  /\ hist' = [hist EXCEPT !.advances = @ + 1, !.op = "wait"]
  /\ UNCHANGED <<variant, gs, ui, timers, raf, scene, mounted>>

Next ==
  \/ Frame
  \/ StaleFrame
  \/ \E key \in Keys(variant) : KeyDown(key)
  \/ \E key \in Keys(variant) : KeyUp(key)
  \/ TouchStart
  \/ Resize
  \/ Timer
  \/ Reset
  \/ Unmount
  \/ Advance

Spec == Init /\ [][Next]_vars

\* The 3D games on their way to the goal, with the browser's timers: the time
\* at which a pending timer is due always comes, and a timer that is due runs
Elapse ==
  /\ timers # <<>>
  /\ now < timers[1].due
  /\ now' = timers[1].due
  /\ hist' = [hist EXCEPT !.op = "wait"]
  /\ UNCHANGED <<variant, gs, ui, timers, raf, scene, mounted>>

GoalInit ==
  \E v \in {"maze", "city"} : \E m0 \in Constructed(v) :
     \E script \in (IF v = "maze" THEN {Settled, ToGoal} ELSE {Settled, ToCourt}) :
        \E rnd \in Draws(m0, StartTime) : Mounted(m0, rnd, script)

\* no frame goes stale in 3D: endGame runs in the timer, outside gameLoop
GoalNext ==
  \/ Frame
  \/ \E key \in Keys(variant) : KeyDown(key)
  \/ \E key \in Keys(variant) : KeyUp(key)
  \/ Timer
  \/ Reset
  \/ Unmount
  \/ Advance
  \/ Elapse

GoalSpec ==
  GoalInit /\ [][GoalNext]_vars /\ WF_vars(Elapse) /\ WF_vars(Timer)

\* bounce on its whole domain: the city after an opening, with the ball as it
\* is or as the deflation branch of checkObstacleCollisions leaves it
punctured(ball) ==
  [ball EXCEPT !.deflated = TRUE, !.radius = (ball.normalRadius * 8) \div 10]

StartsAs(st) ==
  /\ variant = st.m.variant
  /\ scene = st.m.scene
  /\ gs = st.m.gs
  /\ ui = st.m.ui
  /\ timers = st.m.timers
  /\ raf = st.m.raf
  /\ mounted = st.m.mounted
  /\ now = st.t
  /\ hist = [Hist0 EXCEPT !.op = st.m.hist.op, !.held = st.m.hist.held]

BounceInit ==
  \E m0 \in Constructed("city") :
     \E script \in {Settled, SingleJump, TripleJump} :
        \E deflated \in BOOLEAN :
           \E st \in {replay([m |-> gameLoop(m0, StartTime, <<0, 0, 0, 0>>),
                              t |-> StartTime], script, 1)} :
              StartsAs(IF deflated
                         THEN [st EXCEPT !.m.gs.ball = punctured(@)]
                         ELSE st)

BounceNext ==
  \/ Frame
  \/ KeyDown("jump")
  \/ KeyUp("jump")
  \/ Advance

BounceSpec == BounceInit /\ [][BounceNext]_vars

\* the movement keys on the same domain
MoveNext ==
  \/ Frame
  \/ \E key \in {"left", "right", "forward", "backward"} : KeyDown(key)
  \/ \E key \in {"left", "right", "forward", "backward"} : KeyUp(key)

MoveSpec == BounceInit /\ [][MoveNext]_vars

\* the high-score panel: the list that initGame loads was written by an
\* earlier run of one of the variants, which share the storage key; a session
\* is played to its end in one step, and leaves a raw score; the i-th stored
\* name is i letters long
StoredLists ==
  { [i \in 1..Len(scores) |-> [name |-> [k \in 1..i |-> "x"], score |-> scores[i]]] :
      scores \in { <<>>,
                   << 6, 6, 5, 5, 3, 3, 2, 2, 1 >>,
                   << 9, 9, 8, 8, 7, 7, 6, 5, 4, 4 >> } }

Names == { <<>>, << " " >>, << "A", "l" >>, << " ", "B", "o", " " >> }

RawScores == {0, 47, 70, 75, 120}

ScoresInit ==
  \E v \in {"2d", "city"} : \E m0 \in Constructed(v) :
     \E stored \in StoredLists :
        \E st \in {[m |-> gameLoop(m0, StartTime, <<0, 0, 0, 0>>),
                    t |-> StartTime]} :
           StartsAs([st EXCEPT !.m.ui.highScores = stored])

PlayToTheEnd ==
  /\ mounted
  /\ ~gs.gameOver
  /\ \E raw \in RawScores :
        Becomes(endGame([M EXCEPT !.gs.score = raw, !.hist.op = "end"]))
  /\ UNCHANGED now

TypeName ==
  /\ mounted
  /\ ui.gameOver
  /\ ui.isNewHighScore
  /\ \E name \in Names : Becomes(setPlayerName(M, name))
  /\ UNCHANGED now

SaveScore ==
  /\ mounted
  /\ ui.gameOver
  /\ ui.isNewHighScore
  /\ Becomes(saveHighScore(M))
  /\ UNCHANGED now

ScoresNext ==
  \/ PlayToTheEnd
  \/ TypeName
  \/ SaveScore
  \/ Reset

ScoresSpec == ScoresInit /\ [][ScoresNext]_vars

\* the speed ramp: a session of a 2D variant that has run to a raw score
\* short of 200 at the base speed, and then runs on
RampScores == {195, 198}

RampInit ==
  \E v \in Canvas2D : \E m0 \in Constructed(v) : \E raw \in RampScores :
     \E script \in {<<>>, << Frames(7) >>} :
        \E m1 \in {gameLoop(m0, StartTime, <<900, 0, 900, 900>>)} :
           \E st \in {replay([m |-> [m1 EXCEPT !.gs.score = raw,
                                               !.ui.score = raw \div 10],
                              t |-> StartTime], script, 1)} :
              StartsAs(st)

RampNext ==
  \/ Frame
  \/ \E key \in {"left", "right"} : KeyDown(key)
  \/ \E key \in {"left", "right"} : KeyUp(key)
  \/ Reset

RampSpec == RampInit /\ [][RampNext]_vars

---------------------------------------------------------------------------
(* Properties *)

\* the step is a call of jump (2D, maze) or bounce (city) from a key or touch
\* handler
JumpInput == hist'.inputs = hist.inputs + 1 /\ hist'.op = "jump"

\* the ball moves downwards: y grows downwards on the 2D canvas
Falling == IF variant = "2d" THEN gs.ball.velocityY > 0 ELSE gs.ball.velocityY < 0

\* C1: after every completed frame update the ball is not below the floor:
\* y + radius <= canvas.height in 2D, y - radius >= 0 in 3D
C1_NeverBelowFloor ==
  hist.op = "update" =>
    IF variant = "2d"
      THEN gs.ball.y + gs.ball.radius <= gs.canvas.height
      ELSE gs.ball.y - gs.ball.radius >= 0

\* C2: consecutiveJumps is one of 0, 1, 2, 3 in every reachable state
C2_ComboRange == gs.ball.consecutiveJumps \in 0..3

\* a jump input was refused at the cap, inside the combo window
C2_AtCap ==
  /\ hist.op = "jump"
  /\ hist.inputs > 0
  /\ gs.ball.consecutiveJumps = 3
  /\ gs.ball.lastJumpTime < now
  /\ now - gs.ball.lastJumpTime < ComboWindow

\* C3: a jump input on a grounded, non-deflated ball sets the vertical
\* velocity to jumpForce, consecutiveJumps to 1, lastJumpTime to the current
\* time and onGround to false
C3_GroundedJump ==
  [][(JumpInput /\ gs.ball.onGround /\ ~gs.ball.deflated) =>
       /\ gs'.ball.velocityY = gs.ball.jumpForce
       /\ gs'.ball.consecutiveJumps = 1
       /\ gs'.ball.lastJumpTime = now
       /\ ~gs'.ball.onGround]_vars

\* the ball has just left the ground by a jump
C3_Jumped ==
  /\ hist.op = "jump"
  /\ hist.inputs > 0
  /\ gs.ball.consecutiveJumps = 1
  /\ gs.ball.velocityY = gs.ball.jumpForce
  /\ gs.ball.lastJumpTime = now
  /\ ~gs.ball.onGround

\* C4: a jump input on an airborne ball less than 300 ms after the last
\* accepted jump, with consecutiveJumps = n < 3, makes the count n + 1, sets
\* lastJumpTime to now and the vertical velocity to
\* jumpForce * (1 + 0.2 * (n + 1)); onGround stays false
C4_ComboJump ==
  [][(/\ JumpInput
      /\ ~gs.ball.onGround
      /\ ~gs.ball.deflated
      /\ now - gs.ball.lastJumpTime < 300
      /\ gs.ball.consecutiveJumps < 3) =>
       /\ gs'.ball.consecutiveJumps = gs.ball.consecutiveJumps + 1
       /\ gs'.ball.lastJumpTime = now
       /\ 10 * gs'.ball.velocityY
            = gs.ball.jumpForce * (10 + 2 * (gs.ball.consecutiveJumps + 1))
       /\ ~gs'.ball.onGround]_vars

\* the second jump of a combo, 150 ms after the first: count 2, 1.4 * jumpForce
C4_SecondJump ==
  /\ hist.op = "jump"
  /\ hist.inputs > 0
  /\ gs.ball.consecutiveJumps = 2
  /\ 10 * gs.ball.velocityY = 14 * gs.ball.jumpForce
  /\ gs.ball.lastJumpTime = now
  /\ hist.advances = 1
  /\ ~gs.ball.onGround

\* C5: a jump input on an airborne ball 300 ms or more after the last
\* accepted jump, or with consecutiveJumps already 3, changes neither the
\* vertical velocity nor consecutiveJumps, lastJumpTime or onGround
C5_IgnoredJump ==
  [][(/\ JumpInput
      /\ ~gs.ball.onGround
      /\ (now - gs.ball.lastJumpTime >= 300 \/ gs.ball.consecutiveJumps = 3)) =>
       /\ gs'.ball.velocityY = gs.ball.velocityY
       /\ gs'.ball.consecutiveJumps = gs.ball.consecutiveJumps
       /\ gs'.ball.lastJumpTime = gs.ball.lastJumpTime
       /\ gs'.ball.onGround = gs.ball.onGround]_vars

\* a jump input arrived exactly 300 ms after the jump of a ball still in the
\* air
C5_TooLate ==
  /\ hist.op = "jump"
  /\ hist.inputs > 0
  /\ ~gs.ball.onGround
  /\ gs.ball.consecutiveJumps > 0
  /\ now - gs.ball.lastJumpTime = 300

\* C6: at the end of every frame update, a ball that moves downwards and is
\* not on the ground has consecutiveJumps = 0
C6_FallingResetsCombo ==
  (hist.op = "update" /\ Falling /\ ~gs.ball.onGround) =>
     gs.ball.consecutiveJumps = 0

\* C7: a ball that overlaps a dangerous obstacle of the city at the end of a
\* frame update is deflated, with 0.8 of its normal radius
C7_NailDeflates ==
  (hist.op = "update" /\ variant = "city") =>
     \A k \in 1..Len(scene.obstacles) :
        (scene.obstacles[k].dangerous
           /\ isColliding(gs.ball, scene.obstacles[k].box)) =>
          /\ gs.ball.deflated
          /\ 10 * gs.ball.radius = 8 * gs.ball.normalRadius

\* C8: within a session the goal bonus is added at most once and the delayed
\* end of the game is scheduled at most once
C8_OneShotLatch == hist.bonuses <= 1 /\ hist.scheduled <= 1

\* the ball is inside the court in a frame after the one that latched
C8_StillInside ==
  /\ variant = "city"
  /\ hist.op = "update"
  /\ gs.mazeCompleted
  /\ hist.bonuses = 1
  /\ timers # <<>>
  /\ now > timers[1].due - 3000
  /\ shorterThan(Vec(gs.ball.x - goalPositionCity.x,
                     gs.ball.y - goalPositionCity.y,
                     gs.ball.z - goalPositionCity.z), 7000)

\* C9: after the collision resolution of a frame no resolved wall, platform
\* or building still overlaps the ball (by more than Epsilon)
C9_NoOverlapLeft == hist.op = "update" => ~hist.overlap

\* C10: a power-up expiry timer of a session that has ended, or ended and was
\* reset, does not change the radius of the ball when it fires
C10_StaleExpiryIsNoOp ==
  [][(/\ timers # <<>>
      /\ timers' = Tail(timers)
      /\ timers[1].kind = "expire"
      /\ (gs.gameOver \/ timers[1].session # hist.session)) =>
       gs'.ball.radius = gs.ball.radius]_vars

\* C11: once the loop is stopped, by the end of the game or by the unmount,
\* no frame request and no delayed-effect timer is pending any more, and no
\* timer of an earlier session is pending after a reset
C11_NothingPendingOnceStopped ==
  /\ (gs.gameOver \/ ~mounted) =>
        (timers = <<>> /\ ~raf.current /\ raf.stale = 0)
  /\ \A k \in 1..Len(timers) : timers[k].session = hist.session

\* C12: an invocation of gameLoop in which the game ends requests no further
\* animation frame
C12_NoRequestAfterGameOver ==
  (hist.op = "update" /\ gs.gameOver) => ~raf.current

\* C13: the delayed end of the game fires only while gameOver is false, and
\* the effects of endGame are applied at most once in a session
C13_EndGameOncePerSession ==
  /\ [](hist.endGames <= 1)
  /\ [][(/\ timers # <<>>
          /\ timers' = Tail(timers)
          /\ timers[1].kind = "endGame") =>
           (~gs.gameOver /\ gs'.gameOver
              /\ hist'.endGames = hist.endGames + 1)]_vars

\* the timer set when the goal was reached has fired and ended the game
C13_GoalTimerFired ==
  /\ variant # "2d"
  /\ hist.op = "timer"
  /\ gs.mazeCompleted
  /\ gs.gameOver
  /\ hist.endGames = 1
  /\ timers = <<>>

\* ---- C14: entities that left the screen ----
\* a step that runs one update of the 2D game inside the current session
Tick2D == variant = "2d" /\ hist'.ticks = hist.ticks + 1

\* the horizontal shift this tick applies to obstacles and to power-ups
obstacleShift == Mul(gs'.gameSpeed, 1000 + ((sizeRatio(gs.ball) - 1000) * 3) \div 10)
powerUpShift == gs'.gameSpeed

Shifted(list, dx) == [k \in 1..Len(list) |-> [list[k] EXCEPT !.x = @ - dx]]
OnScreen(e) == e.x + e.width >= 0

\* old entities first, in their order, then at most one entity spawned now
KeepsExactly(after, kept) ==
  /\ Len(after) \in {Len(kept), Len(kept) + 1}
  /\ SubSeq(after, 1, Len(kept)) = kept

\* C14: in every 2D update each obstacle and each power-up is moved once, the
\* ones whose right edge is left of the screen (x + width < 0) are removed and
\* all others are kept and examined, also when several leave in the same tick
C14_EvictionSkipsNothing ==
  [][Tick2D =>
       /\ IF gs'.lastObstacleTime = gs.lastObstacleTime
            THEN gs'.obstacles =
                   SelectSeq(Shifted(gs.obstacles, obstacleShift), OnScreen)
            ELSE LET spawned == gs'.obstacles[Len(gs'.obstacles)]
                     kept == SubSeq(gs'.obstacles, 1, Len(gs'.obstacles) - 1)
                 IN  /\ gs'.obstacles # <<>>
                     /\ kept = SelectSeq(Shifted(gs.obstacles, obstacleShift),
                                         OnScreen)
                     /\ OnScreen(spawned)
       /\ hist'.pickups = hist.pickups =>
            KeepsExactly(gs'.powerUps,
                         SelectSeq(Shifted(gs.powerUps, powerUpShift), OnScreen))
       /\ \A k \in 1..Len(gs'.obstacles) : OnScreen(gs'.obstacles[k])
       /\ \A k \in 1..Len(gs'.powerUps) : OnScreen(gs'.powerUps[k])
       /\ hist'.left.obstacles =
            Len(gs.obstacles) - Len(SelectSeq(Shifted(gs.obstacles, obstacleShift),
                                              OnScreen))]_vars

\* two power-ups that were side by side left the screen in the same update
C14_TwoLeftAtOnce ==
  /\ variant = "2d" /\ hist.op = "update"
  /\ hist.left.powerUps = 2 /\ gs.powerUps = <<>> /\ ~gs.gameOver

\* ---- C15: the raw score ----
\* C15: the raw score never decreases inside a session, a reset starts it again
\* from 0, every 2D update adds exactly 1 and so does every step to the right
\* in 3D: the raw score is the number of qualifying ticks of the session plus
\* the goal bonus, 47 after 47 qualifying ticks
C15_RawScoreCountsTicks ==
  /\ [](gs.score - hist.qualifying \in
          (IF hist.bonuses = 0 THEN {0} ELSE {250, 500}))
  /\ [][/\ hist'.session = hist.session => gs'.score >= gs.score
        /\ hist'.session # hist.session =>
              (gs'.score = hist'.qualifying /\ gs'.score <= 1)
        /\ Tick2D => gs'.score = gs.score + 1
        /\ (variant = "2d" /\ hist'.ticks = hist.ticks
              /\ hist'.session = hist.session) => gs'.score = gs.score]_vars

\* a fresh 2D session after its 47th update
C15_FortySevenTicks ==
  /\ variant = "2d" /\ hist.session = 1 /\ hist.op = "update"
  /\ hist.qualifying = 47 /\ gs.score = 47

\* ---- C16: the displayed score ----
\* C16: the displayed score is floor(raw score / 10) after every operation,
\* whichever of update, moveRight, the goal bonus or resetGame changed the raw
\* score
C16_DisplayedIsTenth == ui.score = gs.score \div 10

\* the goal bonus has been added to a raw score that steps to the right began
C16_BonusDisplayed ==
  /\ variant # "2d" /\ hist.op = "update" /\ hist.bonuses = 1
  /\ hist.qualifying >= 1 /\ gs.score > 500 /\ ui.score = 50

\* ---- C17: the order of the steps of one update ----
\* the ball as the collision test of this tick sees it: moved by the physics,
\* with the radius it had before any pickup of this tick
BallAtTest == [gs'.ball EXCEPT !.radius = gs.ball.radius]

HitsBeforeBookkeeping ==
  \E k \in 1..Len(gs.obstacles) : overlaps(BallAtTest, gs.obstacles[k])

InGoalRadius(ball) ==
  IF variant = "maze"
    THEN shorterThan(Vec(ball.x - goalPositionMaze.x, ball.y - goalPositionMaze.y,
                         ball.z - goalPositionMaze.z), ball.radius + 1500)
    ELSE shorterThan(Vec(ball.x - goalPositionCity.x, ball.y - goalPositionCity.y,
                         ball.z - goalPositionCity.z), 7000)

\* C17: in one update the collisions are resolved after the physics and before
\* the spawn bookkeeping (spawn, advance, evict), and the goal is checked last:
\* a 2D update ends the game exactly when the moved ball overlaps an obstacle
\* where the obstacle stood before this tick advanced it, and a 3D update
\* that leaves the ball inside the goal radius latches completed in that update
C17_CollisionBeforeBookkeeping ==
  [][/\ Tick2D => (gs'.gameOver <=> HitsBeforeBookkeeping)
     /\ (variant # "2d" /\ hist'.ticks = hist.ticks + 1
            /\ InGoalRadius(gs'.ball)) => gs'.mazeCompleted]_vars

\* ---- C18: the radius of the ball ----
\* C18: the radius stays within its bounds: in 2D it is normalRadius,
\* min(1.5 * normalRadius, 25) or max(0.7 * normalRadius, 10), hence between 10
\* and 25; in 3D it is normalRadius or 0.8 * normalRadius; a pickup on a ball
\* that is already grown or shrunk does not compound
C18_RadiusWithinBounds ==
  LET ball == gs.ball
      n == ball.normalRadius
  IN  IF variant = "2d"
        THEN /\ ball.radius \in {n, Min((n * 3) \div 2, 25000),
                                  Max((n * 7) \div 10, 10000)}
             /\ 10000 <= ball.radius /\ ball.radius <= 25000
        ELSE ball.radius \in {n, (n * 8) \div 10}

\* a second grow power-up has been picked up by a ball that was still grown
C18_SecondGrow ==
  /\ variant = "2d" /\ hist.op = "update" /\ hist.pickups = 2
  /\ Len(timers) = 2 /\ gs.ball.radius = 22500

\* ---- C19: the spawn interval of obstacles ----
\* max(300, obstacleFrequency - 200 * (radius / normalRadius) - 60 * gameSpeed)
\* in ms, for a radius in model units and a speed in thousandths
IntervalMs(radius, normalRadius, speed) ==
  Max(300, MediumObstacleFrequency - (200 * radius) \div normalRadius
             - (60 * speed) \div 1000)

\* radii and game speeds the interval is compared over
RadiusSamples == {10500, 15000, 22500}
SpeedSamples == {5000, 5100, 16000, 30000}

IntervalOf(r, s) ==
  spawnInterval([ball |-> [radius |-> r, normalRadius |-> NormalRadius2D],
                 gameSpeed |-> s])

\* the interval follows the formula, respects the floor and does not grow
\* with the radius or with the speed
IntervalLaw ==
  \A r1 \in RadiusSamples, s1 \in SpeedSamples :
     /\ IntervalOf(r1, s1) = IntervalMs(r1, NormalRadius2D, s1)
     /\ IntervalOf(r1, s1) >= 300
     /\ \A r2 \in RadiusSamples, s2 \in SpeedSamples :
           (r1 <= r2 /\ s1 <= s2) => IntervalOf(r2, s2) <= IntervalOf(r1, s1)

\* C19: the obstacle spawn interval is
\* max(300, obstacleFrequency - 200 * radius / normalRadius - 60 * gameSpeed),
\* never below 300 ms and never longer for a larger radius or a higher speed;
\* a 2D update spawns an obstacle exactly when more than the interval has
\* elapsed since the last obstacle spawn, one at most, and each of the two
\* spawn timestamps changes only with a spawn of its own category
C19_SpawnInterval ==
  /\ [](variant = "2d" =>
          (gs.ball.normalRadius = NormalRadius2D /\ IntervalLaw))
  /\ [][Tick2D =>
         LET interval == IntervalMs(gs.ball.radius, gs.ball.normalRadius,
                                    gs'.gameSpeed)
             obstacleDue == now' - gs.lastObstacleTime > interval
             powerUpDue == now' - gs.lastPowerUpTime > MediumPowerUpFrequency
         IN  /\ gs'.lastObstacleTime =
                   (IF obstacleDue THEN now' ELSE gs.lastObstacleTime)
             /\ Len(gs'.obstacles) =
                   Len(gs.obstacles) - hist'.left.obstacles
                     + (IF obstacleDue THEN 1 ELSE 0)
             /\ obstacleDue =>
                   gs'.obstacles[Len(gs'.obstacles)].x
                     = gs.canvas.width - obstacleShift
             /\ gs'.lastPowerUpTime =
                   (IF powerUpDue THEN now' ELSE gs.lastPowerUpTime)]_vars

\* an update has spawned an obstacle, more than a second after the first, and
\* no power-up
C19_ObstacleSpawnedAlone ==
  /\ variant = "2d" /\ hist.op = "update" /\ hist.session = 1
  /\ gs.lastObstacleTime = now /\ now > StartTime + 1000
  /\ gs.lastPowerUpTime = StartTime
  /\ gs.obstacles # <<>>
  /\ gs.obstacles[Len(gs.obstacles)].x > gs.canvas.width - 10000

\* ---- C20: collisions of the 2D game ----
\* the power-ups the collision test of this tick finds: the old ones, moved,
\* minus those that left the screen
PowerUpsAtTest == SelectSeq(Shifted(gs.powerUps, powerUpShift), OnScreen)

\* the power-ups of the old list that are still live after this tick
OldPowerUpsKept ==
  IF gs'.lastPowerUpTime # gs.lastPowerUpTime /\ gs'.powerUps # <<>>
    THEN SubSeq(gs'.powerUps, 1, Len(gs'.powerUps) - 1)
    ELSE gs'.powerUps

\* the power-ups at the test that overlap the moved ball of radius r
Touched(r) ==
  {k \in 1..Len(PowerUpsAtTest) :
      /\ PowerUpsAtTest[k].active
      /\ overlaps([gs'.ball EXCEPT !.radius = r], PowerUpsAtTest[k])}

FirstOf(S) == CHOOSE k \in S : \A j \in S : k <= j

\* C20: a 2D update ends the game exactly when the moved ball's bounding
\* square overlaps a live obstacle, and the ball stays where it is (no
\* push-out); it picks up exactly the active power-ups its square overlaps:
\* each pickup sets the radius, schedules one expiry and removes that one
\* power-up from the live list, all others stay
C20_OverlapIsTerminalOrPickup ==
  [][Tick2D =>
       LET n == hist'.pickups - hist.pickups
           first == FirstOf(Touched(gs.ball.radius))
       IN  /\ gs'.gameOver <=>
                  \E k \in 1..Len(gs'.obstacles) :
                     overlaps(BallAtTest, gs'.obstacles[k])
           /\ gs'.gameOver => (ui'.gameOver /\ hist'.endGames = hist.endGames + 1)
           /\ n >= 0 /\ Len(OldPowerUpsKept) = Len(PowerUpsAtTest) - n
           /\ Len(timers') = Len(timers) + n
           /\ (n = 0) <=> (Touched(gs.ball.radius) = {})
           /\ n = 0 => /\ OldPowerUpsKept = PowerUpsAtTest
                       /\ gs'.ball.radius = gs.ball.radius
           /\ n = 1 =>
                /\ OldPowerUpsKept = RemoveAt(PowerUpsAtTest, first)
                /\ gs'.ball.radius =
                     (IF PowerUpsAtTest[first].type = "grow"
                        THEN Min((gs.ball.normalRadius * 3) \div 2, 25000)
                        ELSE Max((gs.ball.normalRadius * 7) \div 10, 10000))
                /\ timers'[Len(timers')] =
                     [kind |-> "expire", due |-> now' + 8000,
                      session |-> hist.session]
                /\ \A k \in Touched(gs'.ball.radius) : k <= first]_vars

\* the update in which the ball ran into a cactus also picked up the power-up
\* above it: the game is over, the ball still overlaps, the power-up is gone
C20_HitAndPickup ==
  /\ variant = "2d" /\ hist.op = "update"
  /\ gs.gameOver /\ ui.gameOver /\ hist.endGames = 1
  /\ hist.ticks >= 1 /\ hist.pickups = 1 /\ Len(timers) = 1
  /\ gs.powerUps = <<>>
  /\ \E k \in 1..Len(gs.obstacles) : overlaps(gs.ball, gs.obstacles[k])

\* ---- C21: the duration of a power-up effect ----
\* the expiry scheduled by the latest pickup of this session is still pending
EffectRunning ==
  /\ timers # <<>>
  /\ timers[Len(timers)].kind = "expire"
  /\ timers[Len(timers)].session = hist.session
  /\ timers[Len(timers)].due > now

\* C21: from a pickup until 8000 ms after it the radius of a live 2D ball is
\* the value that pickup set, also when an earlier effect was still running
\* at the pickup, and the expiry of the effect reverts it to normalRadius
C21_EffectLastsItsDuration ==
  /\ []((variant = "2d" /\ ~gs.gameOver /\ EffectRunning) =>
           gs.ball.radius = hist.effect)
  /\ [][(/\ timers # <<>>
          /\ timers' = Tail(timers)
          /\ timers[1].kind = "expire"
          /\ ~gs.gameOver) => gs'.ball.radius = gs.ball.normalRadius]_vars

\* ---- C22: a jump input on a deflated ball ----
\* C22: a jump input on a deflated ball changes nothing of the ball: vertical
\* velocity, consecutiveJumps, lastJumpTime and onGround stay as they are,
\* on the ground or in the air and whatever the time since the last jump
C22_DeflatedRejectsJump ==
  [][(JumpInput /\ gs.ball.deflated) =>
       /\ gs'.ball.velocityY = gs.ball.velocityY
       /\ gs'.ball.consecutiveJumps = gs.ball.consecutiveJumps
       /\ gs'.ball.lastJumpTime = gs.ball.lastJumpTime
       /\ gs'.ball.onGround = gs.ball.onGround
       /\ gs'.ball = gs.ball]_vars

\* a deflated ball in the air, inside the combo window of its first jump, has
\* just had a jump input, which an intact ball would have taken as a combo
C22_RejectedInTheAir ==
  /\ variant = "city" /\ hist.op = "jump" /\ hist.inputs >= 1
  /\ gs.ball.deflated /\ ~gs.ball.onGround
  /\ gs.ball.consecutiveJumps = 1
  /\ now - gs.ball.lastJumpTime < ComboWindow

\* ---- C23: the jump keys are edge-triggered ----
\* a keydown handler has called jump: only a handler sets jumpPressed
KeyboardJump == JumpInput /\ ~gs.jumpPressed /\ gs'.jumpPressed

\* C23: the keydown events of a key that is held (auto-repeat) never invoke
\* jump: a keydown that jumps is the first of a key that was up, for every
\* interleaving of press, repeat and release of Space and ArrowUp
C23_HeldKeyNeverJumpsAgain ==
  [][KeyboardJump => hist'.held # hist.held]_vars

\* ---- C24: reaching the goal ----
\* the celebratory delay and the bonus of the variant
GoalDelay == IF variant = "maze" THEN 2000 ELSE 3000
GoalBonus(ball) == IF variant = "city" /\ ball.deflated THEN 250 ELSE 500

\* C24: the update in which the ball first comes within the capture radius
\* adds exactly the bonus to the raw score (500, or 250 for a deflated ball in
\* the city) and sets the timer of the delay (2000 ms maze, 3000 ms city);
\* when that timer runs, not before the delay is over, gameOver becomes true
\* with the final score floor(raw / 10), bonus included; and a session that
\* reached the goal does end
C24_GoalEndsTheSession ==
  /\ [][(~gs.mazeCompleted /\ gs'.mazeCompleted) =>
          /\ InGoalRadius(gs'.ball)
          /\ gs'.score = gs.score + GoalBonus(gs'.ball)
          /\ timers' = Append(timers, [kind |-> "endGame",
                                       due |-> now' + GoalDelay,
                                       session |-> hist.session])]_vars
  /\ [][(/\ timers # <<>>
          /\ timers' = Tail(timers)
          /\ timers[1].kind = "endGame") =>
          /\ now >= timers[1].due
          /\ gs'.gameOver /\ ui'.gameOver
          /\ ui'.finalScore = gs.score \div 10
          /\ gs.score >= GoalBonus(gs.ball)]_vars
  /\ (gs.mazeCompleted /\ ~gs.gameOver) ~> gs.gameOver

\* the city game has ended three seconds after the ball reached the court,
\* with the bonus in the final score
C24_CourtSessionEnded ==
  /\ variant = "city" /\ hist.op = "timer"
  /\ gs.mazeCompleted /\ gs.gameOver /\ ui.gameOver
  /\ ui.finalScore >= 50 /\ ui.finalScore = gs.score \div 10

\* ---- C25: gravity before integration ----
\* the 3D ball after updateBall, from the ball of the current state
NextBall3D == updateBall3D(gs.ball)

\* C25: every tick applies gravity to the vertical velocity first and moves
\* the ball by the velocity after gravity: unless the floor clamps it, the new
\* vertical velocity is the old one plus gravity in 2D (minus gravity in 3D)
\* and the new height is the old one plus that new velocity
C25_GravityBeforeIntegration ==
  /\ [][Tick2D =>
          LET v == gs.ball.velocityY + gs.ball.gravity
          IN  IF gs.ball.y + v + gs.ball.radius > gs.canvas.height
                THEN /\ gs'.ball.velocityY = 0
                     /\ gs'.ball.y = gs.canvas.height - gs.ball.radius
                ELSE /\ gs'.ball.velocityY = v
                     /\ gs'.ball.y = gs.ball.y + v]_vars
  /\ [](variant # "2d" =>
          LET v == gs.ball.velocityY - gs.ball.gravity
          IN  IF gs.ball.y + v - gs.ball.radius < 0
                THEN /\ NextBall3D.velocityY = 0
                     /\ NextBall3D.y = gs.ball.radius
                ELSE /\ NextBall3D.velocityY = v
                     /\ NextBall3D.y = gs.ball.y + v)

\* the first update after a jump from the ground of the 2D game: the ball has
\* risen by the jump force less one step of gravity
C25_FirstTickOfJump ==
  /\ variant = "2d" /\ hist.op = "update" /\ ~gs.ball.onGround
  /\ gs.ball.velocityY = MediumJumpForce + MediumGravity
  /\ gs.ball.y = gs.canvas.height - gs.ball.radius + gs.ball.velocityY

\* ---- C26: collisions of the 3D games ----
\* a hydrant, a non-dangerous obstacle, standing right beside the ball
HydrantBeside ==
  [box |-> Box(gs.ball.x + 300, 500, gs.ball.z, 600, 1000, 600),
   dangerous |-> FALSE]

\* C26: in 3D no update sets gameOver, whatever the ball touches; gameOver is
\* set only by the delayed end after the goal, so gameOver implies
\* mazeCompleted; and a non-dangerous obstacle does not deflate the ball
C26_NoCollisionEndsTheGame ==
  /\ [](variant # "2d" => (gs.gameOver => gs.mazeCompleted))
  /\ [](variant = "city" =>
          hitObstacle(gs.ball, HydrantBeside).deflated = gs.ball.deflated)
  /\ [][(variant # "2d" /\ hist'.ticks = hist.ticks + 1) =>
          /\ gs'.gameOver = gs.gameOver
          /\ gs'.ball.deflated = gs.ball.deflated]_vars
  /\ [][(variant # "2d" /\ ~gs.gameOver /\ gs'.gameOver) =>
          (hist'.op = "timer" /\ gs.mazeCompleted)]_vars

\* an update of a 3D game has left the ball in contact with a wall or a
\* building, and the game goes on
C26_ContactAndStillPlaying ==
  /\ variant # "2d" /\ hist.op = "update" /\ hist.overlap
  /\ hist.ticks >= 1 /\ ~gs.gameOver /\ ~gs.mazeCompleted /\ ~gs.ball.deflated

\* ---- C27: the cap of the combo ----
\* C27: from a jump off the ground until the ball is on the ground again at
\* most three jump inputs are accepted, the first included, whatever the
\* interleaving of taps and updates
C27_ThreeStacksPerFlight == hist.accepted <= MaxCombo

\* the list is no longer than ten entries and no entry scores more than one
\* before it
ListInOrder ==
  /\ Len(ui.highScores) <= MaxHighScores
  /\ \A i, j \in 1..Len(ui.highScores) :
        i < j => ui.highScores[i].score >= ui.highScores[j].score

Occurrences(list, entry) == Cardinality({i \in 1..Len(list) : list[i] = entry})

\* C28: after any sequence of saveHighScore calls the list has at most 10
\* entries in non-increasing order of score, every kept entry is an earlier
\* entry or the newly saved one, and a save with an empty or whitespace-only
\* name changes nothing
C28_TopTenInOrder ==
  /\ []ListInOrder
  /\ [][hist'.op \in {"saved", "ignored"} =>
          IF \A k \in 1..Len(ui.playerName) : ui.playerName[k] = " "
            THEN /\ hist'.op = "ignored"
                 /\ ui' = ui
            ELSE /\ hist'.op = "saved"
                 /\ \A i \in 1..Len(ui'.highScores) :
                       Occurrences(ui'.highScores, ui'.highScores[i])
                         <= Occurrences(ui.highScores, ui'.highScores[i])
                            + (IF ui'.highScores[i] = newScore(ui)
                                 THEN 1 ELSE 0)]_vars

\* a seventh-place score saved on a full list: the new entry stands behind
\* the entries of the same score and the last entry is gone
C28_SavedOnAFullList ==
  /\ hist.op = "saved"
  /\ Len(ui.highScores) = MaxHighScores
  /\ ui.highScores[7] = [name |-> << "B", "o" >>, score |-> 7]
  /\ ui.highScores[9].score = 5
  /\ ui.highScores[10].score = 4

\* C29: in the city, whenever the game loop has run, after the mount and
\* after every resetGame, each obstacle that world generation created is a
\* member of the session's obstacles list
C29_GeneratedObstaclesListed ==
  (variant = "city" /\ hist.op = "update") =>
     \A k \in 1..Len(scene.obstacles) :
        \E i \in 1..Len(gs.obstacles) : gs.obstacles[i] = scene.obstacles[k]

\* C30: once gameOver is set the raw score does not change until resetGame,
\* and while the game is over the final score reported by endGame is
\* floor(raw score / 10) and is the displayed score
C30_ScoreFrozenWhenOver ==
  /\ [](gs.gameOver =>
          /\ ui.finalScore = gs.score \div 10
          /\ ui.finalScore = ui.score)
  /\ [][(gs.gameOver /\ gs'.gameOver /\ hist'.session = hist.session) =>
          gs'.score = gs.score]_vars

\* C31: in the 2D variants gameSpeed has grown by 0.1 at most once for each
\* multiple of 200 that the raw score has reached, never decreases within a
\* session, and is the base speed of the difficulty after resetGame
C31_SpeedRampsOncePer200 ==
  /\ [](variant \in Canvas2D =>
          gs.gameSpeed <= MediumGameSpeed + 100 * (gs.score \div 200))
  /\ [][hist'.session = hist.session => gs'.gameSpeed >= gs.gameSpeed]_vars
  /\ [][hist'.session # hist.session => gs'.gameSpeed = MediumGameSpeed]_vars

\* C32: at any time at most one animation-frame request for gameLoop is
\* pending, whatever the interleaving of frame callbacks, endGame and resetGame
C32_OneLoopChain == (IF raf.current THEN 1 ELSE 0) + raf.stale <= 1

\* C33: when endGame has run, isNewHighScore is true exactly when the final
\* score is greater than 0 and greater than every score of the high-score
\* list as it is stored at that moment, the first game after mount included
C33_NewHighScoreBeatsTheList ==
  hist.op = "end" =>
    (ui.isNewHighScore <=>
       /\ ui.finalScore > 0
       /\ \A i \in 1..Len(ui.highScores) :
             ui.finalScore > ui.highScores[i].score)

\* C34: in the 3D variants the release of a movement key leaves the velocity
\* component of the other horizontal axis as it was: ArrowLeft and ArrowRight
\* do not change velocity.z, and the forward and backward keys do not change
\* velocity.x
C34_ReleaseKeepsOtherAxis ==
  [][(variant \in {"maze", "city"} /\ hist'.op = "key") =>
       \A key \in hist.held \ hist'.held :
          /\ key \in {"left", "right"} =>
                gs'.ball.velocityZ = gs.ball.velocityZ
          /\ key \in {"forward", "backward"} =>
                gs'.ball.velocityX = gs.ball.velocityX]_vars

\* C35: in the city a movement key that goes down sets the velocity component
\* of its direction to magnitude 0.05 while the ball is deflated and to 0.15
\* while it is not
C35_DeflatedMovesSlowly ==
  [][(variant = "city" /\ hist'.op = "key") =>
       LET speed == IF gs.ball.deflated THEN 50 ELSE 150
       IN  \A key \in hist'.held \ hist.held :
              /\ key = "left" => gs'.ball.velocityX = -speed
              /\ key = "right" => gs'.ball.velocityX = speed
              /\ key = "forward" => gs'.ball.velocityZ = -speed
              /\ key = "backward" => gs'.ball.velocityZ = speed]_vars

\* a deflated ball sent left and backward
C35_SlowOnBothAxes ==
  /\ variant = "city" /\ gs.ball.deflated /\ hist.op = "key"
  /\ hist.held = {"left", "backward"}
  /\ gs.ball.velocityX = -50
  /\ gs.ball.velocityZ = 50
====
